---- MODULE Spec2Model ----
(***************************************************************************)
(* Concurrency primitives of misc-playground:                              *)
(*   - SafeQueue<T>        (safe_queue_impl.h, C++11 version): a bounded   *)
(*     FIFO protected by one std::mutex and one std::condition_variable.   *)
(*   - ArrayLockFreeQueue  (cpp/lock_free_queue*.h, std::atomic version):  *)
(*     a circular array with a single-producer and a multiple-producers    *)
(*     implementation.                                                     *)
(* Each component has its own specification (SpecSQ, FairSpecSQ, SpecLFQ); *)
(* the variables of the other component are left unchanged by it.          *)
(***************************************************************************)
EXTENDS Integers, Sequences, FiniteSets, TLC

(***************************************************************************)
(* Bounds of the model.                                                    *)
(***************************************************************************)
\* largest capacity a SafeQueue is constructed with
MaxCapacity == 2
\* elements are drawn from 1..MaxValue
MaxValue == 2
\* number of Push/TryPush calls made on the SafeQueue in one behaviour
MaxStores == 3
\* largest array size Q_SIZE a lock-free queue is instantiated with
MaxQSize == 3
\* number of push calls that find room in the lock-free queue in one behaviour
MaxPushes == 4
\* width in bits of the counters of the lock-free queue (uint32_t in the
\* source, reduced here)
CounterBits == 5

\* at most how many increments before the roll-over the counters of the
\* pre-advanced queue are
WrapMargin == 3

\* calls of ConsumerThread::Join
MaxJoins == 2
\* calls of SafeQueue::operator= in one behaviour
MaxAssigns == 2
\* calls of Singleton::Instance in one behaviour
MaxInstanceCalls == 4
\* largest period a VTimer is constructed with
MaxPeriod == 2
\* calls of VTimer::Update in one behaviour
MaxUpdates == 4

Values == 1..MaxValue
\* content of a variable that has not been assigned ("int data;")
NoVal == 0
NoThread == "nobody"
\* threads using the SafeQueue
SQThreads == {"t1", "t2", "t3"}
\* ConsumerThread: the thread that owns the object and joins it, the threads
\* that produce, and the worker thread spawned by the constructor
Controller == "t1"
ProducerThreads == {"t1", "t2"}
Worker == "t3"
\* threads executing a copy-assignment between the two SafeQueues
Assigners == {"x1", "x2"}
\* threads calling Singleton<TClass>::Instance
SgThreads == {"s1", "s2", "s3"}
\* threads pushing into and popping from the lock-free queue
Producers == {"p1", "p2"}
Consumers == {"c1", "c2"}
LFThreads == Producers \cup Consumers

VARIABLES
    \* ---- SafeQueue<T> members (safe_queue.h)
    m_theQueue,      \* std::queue<T>: sequence, front is index 1
    m_maximumSize,   \* std::size_t, fixed at construction
    m_mutex,         \* owner of the std::mutex, or NoThread
    m_cond,          \* threads parked in m_cond.wait / wait_until, not yet woken
    \* ---- per thread state of the call in progress on the SafeQueue
    pc,              \* position of each thread
    a_elem,          \* argument of Push/TryPush
    expired,         \* TimedWaitPop: steady_clock has reached wakeUpTime
    \* ---- observation
    ret,             \* what the last step handed back to its caller, if it returned
    notified,        \* the last step called m_cond.notify_all()
    stored,          \* every value stored, in the order the stores held the mutex
    removed,         \* every value removed, in the order the removals held the mutex
    \* ---- ArrayLockFreeQueue<ELEM_T, Q_SIZE, Q_TYPE> (cpp/lock_free_queue.h)
    Q_TYPE,              \* template parameter: the implementation in use
    Q_SIZE,              \* template parameter: size of the array
    m_theQueueLF,        \* ELEM_T m_theQueue[Q_SIZE], indexed 0..Q_SIZE-1
    m_writeIndex,        \* std::atomic<uint32_t>
    m_readIndex,         \* std::atomic<uint32_t>
    m_maximumReadIndex,  \* std::atomic<uint32_t>, multiple producers only
    \* ---- per thread state of the push or pop in progress
    lfpc,                \* position of each thread
    currentWriteIndex,   \* local of push
    currentReadIndex,    \* local of pop
    a_data,              \* push: the argument; pop: the caller's variable
    \* ---- observation
    lfret,               \* what the last step handed back to its caller, if it returned
    pushed,              \* values of the pushes that returned true, in order of return
    popped,              \* values of the pops that returned true, in order of their CAS
    unpopped,            \* slots holding a stored value no pop has taken yet
    reserved,            \* multiple producers: who won counter value c, and with what value (index c+1)
    currentMaximumReadIndex, \* local of pop (CAS macro implementation)
    \* ---- the queue built with _WITH_LOCK_FREE_Q_KEEP_REAL_SIZE
    m_count,             \* std::atomic<uint32_t>
    \* ---- ConsumerThread<T> (consumer_thread.h); m_consumableQueue is the SafeQueue
    m_terminate,         \* std::atomic<bool>
    m_producerThread,    \* std::unique_ptr<std::thread>: "thread" or "null"
    wpc,                 \* position of the worker in ThreadRoutine
    thisElem,            \* local of ThreadRoutine
    jpc,                 \* position of the controller in Join
    \* ---- observation
    initCalls,           \* calls of m_initDelegate
    consumed,            \* arguments of the calls of m_consumeDelegate, in order
    joins,               \* calls of Join that have returned
    crashed,             \* the process has been ended by a fault
    consumedAtStop,      \* Len(consumed) when m_terminate became true
    \* ---- a second SafeQueue<T>, the other operand of operator=
    other_theQueue,      \* its m_theQueue
    other_maximumSize,   \* its m_maximumSize
    other_mutex,         \* owner of its m_mutex, or NoThread
    other_notified,      \* the last step called notify_all() on its m_cond
    \* ---- per thread state of the copy-assignment in progress
    apc,                 \* position of each assigning thread
    a_this,              \* the queue assigned to: "a" (the first queue) or "b"
    a_src,               \* the queue copied from
    \* ---- observation
    assigns,             \* calls of operator= that have returned
    \* ---- Singleton<TClass> (singleton.h)
    m_instancePtr,       \* static TClass*: 0, or the number of the object
    m_lock,              \* static std::atomic<bool>
    spc,                 \* position of each thread in Instance()
    newObj,              \* the object a thread is creating with "new TClass()"
    \* ---- observation
    instances,           \* objects created by "new TClass()"
    built,               \* objects whose constructor has finished
    sret,                \* what the last step handed back, if a call returned
    instanceCalls,       \* calls of Instance() made
    \* ---- VTimer<TIME_TYPE> (vtimer.h)
    m_nextExpiryTime,    \* TIME_TYPE
    m_period,            \* TIME_TYPE, fixed at construction
    \* ---- observation
    updates,             \* calls of Update made
    lastUpdate           \* the last call of Update: its argument, and the
                         \* argument of the callback if it was called

sqVars == <<m_theQueue, m_maximumSize, m_mutex, m_cond, pc, a_elem, expired,
            ret, notified, stored, removed>>

lfqVars == <<Q_TYPE, Q_SIZE, m_theQueueLF, m_writeIndex, m_readIndex,
             m_maximumReadIndex, lfpc, currentWriteIndex, currentReadIndex,
             a_data, lfret, pushed, popped, unpopped, reserved,
             currentMaximumReadIndex>>

\* m_count exists in the counting build only; the steps of the other builds
\* leave it alone
countVars == <<m_count>>

ctVars == <<m_terminate, m_producerThread, wpc, thisElem, jpc, initCalls,
            consumed, joins, crashed, consumedAtStop>>

asgVars == <<other_theQueue, other_maximumSize, other_mutex, other_notified,
             apc, a_this, a_src, assigns>>

sgVars == <<m_instancePtr, m_lock, spc, newObj, instances, built, sret,
            instanceCalls>>

vtVars == <<m_nextExpiryTime, m_period, updates, lastUpdate>>

\* the components that the queues and the consumer thread do not use
restVars == <<asgVars, sgVars, vtVars>>

otherThanSQ == <<lfqVars, countVars, ctVars, restVars>>

otherThanLFQ == <<sqVars, countVars, ctVars, restVars>>

otherThanCT == <<sqVars, lfqVars, countVars, restVars>>

vars == <<sqVars, lfqVars, countVars, ctVars, restVars>>

(***************************************************************************)
(* SafeQueue<T>                                                            *)
(***************************************************************************)

\* m_theQueue.empty()
QueueEmpty == Len(m_theQueue) = 0

\* variant: the loop of Push tests size() > m_maximumSize
Push_MustWait_Gt == Len(m_theQueue) > m_maximumSize

\* the condition of "while (m_theQueue.size() >= m_maximumSize)" in Push
Push_MustWait == Len(m_theQueue) >= m_maximumSize

\* variant: queueFull is computed as size() > m_maximumSize
QueueFull_Gt == Len(m_theQueue) > m_maximumSize

\* (m_theQueue.size() >= m_maximumSize)
QueueFull == Len(m_theQueue) >= m_maximumSize

\* m_theQueue.push(a_elem)
QueuePush(q, e) == Append(q, e)

\* variant: m_theQueue.back() is handed out
QueueFront_Back(q) == q[Len(q)]

\* m_theQueue.front()
QueueFront(q) == Head(q)

\* variant: the element at the back is dropped
QueuePop_Back(q) == SubSeq(q, 1, Len(q) - 1)

\* m_theQueue.pop()
QueuePop(q) == Tail(q)

\* variant: m_cond.notify_one(), one parked thread is woken
NotifyOne(waiting) ==
    IF waiting = {} THEN {} ELSE waiting \ {CHOOSE t \in waiting : TRUE}

\* m_cond.notify_all(): every parked thread is woken
NotifyAll(waiting) == {}

PushPcs == {"Push_crit", "Push_wait", "TryPush_crit"}

\* Push/TryPush calls in progress that have not stored yet
PushesInFlight == Cardinality({t \in SQThreads : pc[t] \in PushPcs})

\* the operation a position belongs to
OpOf(p) ==
    CASE p \in {"Push_crit", "Push_wait"} -> "Push"
      [] p = "TryPush_crit" -> "TryPush"
      [] p \in {"Pop_crit", "Pop_wait"} -> "Pop"
      [] p = "TryPop_crit" -> "TryPop"
      [] p \in {"TWP_crit", "TWP_wait", "TWP_timeout"} -> "TimedWaitPop"
      [] OTHER -> "none"

\* no call returned in the last step
NoRet == [op |-> "none", rv |-> "none", data |-> NoVal]

\* SafeQueue<T>::SafeQueue(a_maxSize)
ConstructSQ(a_maxSize) ==
    /\ m_theQueue = <<>>
    /\ m_maximumSize = a_maxSize
    /\ m_mutex = NoThread
    /\ m_cond = {}
    /\ pc = [t \in SQThreads |-> "idle"]
    /\ a_elem = [t \in SQThreads |-> NoVal]
    /\ expired = [t \in SQThreads |-> FALSE]
    /\ ret = NoRet
    /\ notified = FALSE
    /\ stored = <<>>
    /\ removed = <<>>

\* no call returned in the last step (lock-free queue)
NoLFRet == [op |-> "none", rv |-> "none", data |-> NoVal]

\* ArrayLockFreeQueue<ELEM_T, a_size, a_type>::ArrayLockFreeQueue(): the
\* counters are zero, the array is not initialised
ConstructLFQ(a_type, a_size) ==
    /\ Q_TYPE = a_type
    /\ Q_SIZE = a_size
    /\ m_theQueueLF = [i \in 0..(a_size - 1) |-> NoVal]
    /\ m_writeIndex = 0
    /\ m_readIndex = 0
    /\ m_maximumReadIndex = 0
    /\ lfpc = [t \in LFThreads |-> "idle"]
    /\ currentWriteIndex = [t \in LFThreads |-> 0]
    /\ currentReadIndex = [t \in LFThreads |-> 0]
    /\ a_data = [t \in LFThreads |-> NoVal]
    /\ lfret = NoLFRet
    /\ pushed = <<>>
    /\ popped = <<>>
    /\ unpopped = {}
    /\ reserved = <<>>
    /\ currentMaximumReadIndex = [t \in LFThreads |-> 0]
    /\ m_count = 0

\* a constructor that starts the worker behind the call of the init delegate
ConstructCT_NoInit ==
    /\ m_terminate = FALSE
    /\ m_producerThread = "thread"
    /\ wpc = "test"
    /\ thisElem = NoVal
    /\ jpc = "none"
    /\ initCalls = 0
    /\ consumed = <<>>
    /\ joins = 0
    /\ crashed = FALSE
    /\ consumedAtStop = 0

\* ConsumerThread<T>::ConsumerThread(a_queueSize, a_consumeDelegate,
\* a_initDelegate): m_terminate(false), and SpawnThread() starts ThreadRoutine
ConstructCT ==
    /\ m_terminate = FALSE
    /\ m_producerThread = "thread"
    /\ wpc = "init"
    /\ thisElem = NoVal
    /\ jpc = "none"
    /\ initCalls = 0
    /\ consumed = <<>>
    /\ joins = 0
    /\ crashed = FALSE
    /\ consumedAtStop = 0

\* the second SafeQueue, constructed with a_maxSize and filled with a_items
\* before the threads start
ConstructOther(a_maxSize, a_items) ==
    /\ other_theQueue = a_items
    /\ other_maximumSize = a_maxSize
    /\ other_mutex = NoThread
    /\ other_notified = FALSE
    /\ apc = [x \in Assigners |-> "idle"]
    /\ a_this = [x \in Assigners |-> "a"]
    /\ a_src = [x \in Assigners |-> "a"]
    /\ assigns = 0

\* no call of Instance returned in the last step
NoSgRet == [thread |-> NoThread, ptr |-> 0, complete |-> FALSE]

\* the static members of Singleton<TClass>: m_instancePtr = 0; m_lock(false)
ConstructSingleton ==
    /\ m_instancePtr = 0
    /\ m_lock = FALSE
    /\ spc = [t \in SgThreads |-> "idle"]
    /\ newObj = [t \in SgThreads |-> 0]
    /\ instances = 0
    /\ built = {}
    /\ sret = NoSgRet
    /\ instanceCalls = 0

\* no call of Update has been made
NoUpdate == [time |-> 0, called |-> FALSE, arg |-> 0, first |-> FALSE, expiry |-> 0]

\* VTimer(a_callback, a_period): m_nextExpiryTime(0), m_period(a_period)
ConstructVTimer(a_period) ==
    /\ m_nextExpiryTime = 0
    /\ m_period = a_period
    /\ updates = 0
    /\ lastUpdate = NoUpdate

\* the components a specification does not exercise stay as constructed
ConstructRest ==
    /\ ConstructOther(1, <<>>)
    /\ ConstructSingleton
    /\ ConstructVTimer(0)

InitSQ ==
    /\ \E a_maxSize \in 1..MaxCapacity : ConstructSQ(a_maxSize)
    /\ ConstructLFQ("SingleProducer", 2)
    /\ ConstructCT
    /\ ConstructRest

\* a call starts: std::unique_lock<std::mutex> lk(m_mutex) or
\* std::lock_guard<std::mutex> lk(m_mutex) is the first statement of every operation
Lock(t, from, to, e) ==
    /\ pc[t] = from
    /\ m_mutex = NoThread
    /\ m_mutex' = t
    /\ pc' = [pc EXCEPT ![t] = to]
    /\ a_elem' = [a_elem EXCEPT ![t] = e]
    /\ ret' = NoRet
    /\ notified' = FALSE
    /\ UNCHANGED <<m_theQueue, m_maximumSize, m_cond, expired, stored, removed>>

\* the end of a call: lk goes out of scope, the call returns r (and d through
\* its reference parameter), its parameters and locals are gone
Return(t, r, d) ==
    /\ m_mutex' = NoThread
    /\ pc' = [pc EXCEPT ![t] = "idle"]
    /\ a_elem' = [a_elem EXCEPT ![t] = NoVal]
    /\ expired' = [expired EXCEPT ![t] = FALSE]
    /\ ret' = [op |-> OpOf(pc[t]), rv |-> r, data |-> d]

\* m_cond.wait(lk): releases the mutex and parks the thread, atomically
Wait(t, at) ==
    /\ m_cond' = m_cond \cup {t}
    /\ m_mutex' = NoThread
    /\ pc' = [pc EXCEPT ![t] = at]
    /\ ret' = NoRet
    /\ notified' = FALSE
    /\ UNCHANGED <<m_theQueue, m_maximumSize, a_elem, expired, stored, removed>>

\* the call returns r without touching the queue or the condition variable
ReturnOnly(t, r) ==
    /\ Return(t, r, NoVal)
    /\ notified' = FALSE
    /\ UNCHANGED <<m_theQueue, m_maximumSize, m_cond, stored, removed>>

\* variant: every store is followed by m_cond.notify_all()
StoreAndNotify_Always(t, r) ==
    /\ m_theQueue' = QueuePush(m_theQueue, a_elem[t])
    /\ stored' = Append(stored, a_elem[t])
    /\ m_cond' = NotifyAll(m_cond)
    /\ notified' = TRUE
    /\ Return(t, r, NoVal)
    /\ UNCHANGED <<m_maximumSize, removed>>

\* m_theQueue.push(a_elem); if (queueEmpty) m_cond.notify_all(); return r
StoreAndNotify(t, r) ==
    LET queueEmpty == QueueEmpty IN
    /\ m_theQueue' = QueuePush(m_theQueue, a_elem[t])
    /\ stored' = Append(stored, a_elem[t])
    /\ m_cond' = IF queueEmpty THEN NotifyAll(m_cond) ELSE m_cond
    /\ notified' = queueEmpty
    /\ Return(t, r, NoVal)
    /\ UNCHANGED <<m_maximumSize, removed>>

\* out_data = m_theQueue.front(); m_theQueue.pop();
\* if (queueFull) m_cond.notify_all(); return r
RemoveAndNotify(t, r) ==
    LET queueFull == QueueFull IN
    /\ m_theQueue' = QueuePop(m_theQueue)
    /\ removed' = Append(removed, QueueFront(m_theQueue))
    /\ m_cond' = IF queueFull THEN NotifyAll(m_cond) ELSE m_cond
    /\ notified' = queueFull
    /\ Return(t, r, QueueFront(m_theQueue))
    /\ UNCHANGED <<m_maximumSize, stored>>

\* ---- SafeQueue<T>::Push
Push_Lock(t) ==
    /\ Len(stored) + PushesInFlight < MaxStores
    /\ \E e \in Values : Lock(t, "idle", "Push_crit", e)
    /\ UNCHANGED otherThanSQ

\* one evaluation of "while (size() >= m_maximumSize) m_cond.wait(lk);" and,
\* when the loop ends, the rest of the call
Push_Crit(t) ==
    /\ pc[t] = "Push_crit"
    /\ IF Push_MustWait
         THEN Wait(t, "Push_wait")
         ELSE StoreAndNotify(t, "void")
    /\ UNCHANGED otherThanSQ

\* m_cond.wait(lk) returns: the thread has been woken and owns the mutex again
Push_Wake(t) ==
    /\ t \notin m_cond
    /\ Lock(t, "Push_wait", "Push_crit", a_elem[t])
    /\ UNCHANGED otherThanSQ

\* ---- SafeQueue<T>::TryPush
TryPush_Lock(t) ==
    /\ Len(stored) + PushesInFlight < MaxStores
    /\ \E e \in Values : Lock(t, "idle", "TryPush_crit", e)
    /\ UNCHANGED otherThanSQ

\* variant: TryPush tests size() <= m_maximumSize
TryPush_HasRoom_Le == Len(m_theQueue) <= m_maximumSize

\* (m_theQueue.size() < m_maximumSize)
TryPush_HasRoom == Len(m_theQueue) < m_maximumSize

\* variant: a TryPush that finds no room waits for it as Push does
TryPush_Crit_Waits(t) ==
    /\ pc[t] = "TryPush_crit"
    /\ IF TryPush_HasRoom
         THEN StoreAndNotify(t, TRUE)
         ELSE Wait(t, "Push_wait")
    /\ UNCHANGED otherThanSQ

TryPush_Crit(t) ==
    /\ pc[t] = "TryPush_crit"
    /\ LET queueEmpty == QueueEmpty IN
       IF TryPush_HasRoom
         THEN StoreAndNotify(t, TRUE)
         ELSE /\ m_cond' = IF queueEmpty THEN NotifyAll(m_cond) ELSE m_cond
              /\ notified' = queueEmpty
              /\ Return(t, FALSE, NoVal)
              /\ UNCHANGED <<m_theQueue, m_maximumSize, stored, removed>>
    /\ UNCHANGED otherThanSQ

\* ---- SafeQueue<T>::Pop
Pop_Lock(t) == Lock(t, "idle", "Pop_crit", NoVal) /\ UNCHANGED otherThanSQ

\* one evaluation of "while (m_theQueue.empty()) m_cond.wait(lk);" and, when
\* the loop ends, the rest of the call
Pop_Crit(t) ==
    /\ pc[t] = "Pop_crit"
    /\ IF QueueEmpty
         THEN Wait(t, "Pop_wait")
         ELSE RemoveAndNotify(t, "void")
    /\ UNCHANGED otherThanSQ

Pop_Wake(t) ==
    /\ t \notin m_cond
    /\ Lock(t, "Pop_wait", "Pop_crit", NoVal)
    /\ UNCHANGED otherThanSQ

\* ---- SafeQueue<T>::TryPop
TryPop_Lock(t) == Lock(t, "idle", "TryPop_crit", NoVal) /\ UNCHANGED otherThanSQ

TryPop_Crit(t) ==
    /\ pc[t] = "TryPop_crit"
    /\ IF ~QueueEmpty
         THEN RemoveAndNotify(t, TRUE)
         ELSE ReturnOnly(t, FALSE)
    /\ UNCHANGED otherThanSQ

\* ---- SafeQueue<T>::TimedWaitPop
\* m_cond.wait_until(lk, wakeUpTime, pred) is
\*    while (!pred()) if (wait_until(lk, wakeUpTime) == timeout) return pred();
\*    return true;
TWP_Lock(t) == Lock(t, "idle", "TWP_crit", NoVal) /\ UNCHANGED otherThanSQ

\* the predicate (m_theQueue.size() > 0) of wait_until
TWP_Pred == Len(m_theQueue) > 0

\* one evaluation of "while (!pred())" and, when the loop ends, the rest of the call
TWP_Crit(t) ==
    /\ pc[t] = "TWP_crit"
    /\ IF TWP_Pred
         THEN RemoveAndNotify(t, TRUE)
         ELSE Wait(t, "TWP_wait")
    /\ UNCHANGED otherThanSQ

\* steady_clock reaches wakeUpTime while the thread is in wait_until
TWP_Deadline(t) ==
    /\ pc[t] = "TWP_wait"
    /\ ~expired[t]
    /\ expired' = [expired EXCEPT ![t] = TRUE]
    /\ ret' = NoRet
    /\ notified' = FALSE
    /\ UNCHANGED <<m_theQueue, m_maximumSize, m_mutex, m_cond, pc, a_elem,
                   stored, removed>>
    /\ UNCHANGED otherThanSQ

\* a thread parked on the condition variable stops waiting without having been
\* notified
Unpark(t) ==
    /\ t \in m_cond
    /\ m_cond' = m_cond \ {t}
    /\ ret' = NoRet
    /\ notified' = FALSE
    /\ UNCHANGED <<m_theQueue, m_maximumSize, m_mutex, pc, a_elem, expired,
                   stored, removed>>

\* the timed wait ends because wakeUpTime has been reached
TWP_TimedOut(t) ==
    /\ pc[t] = "TWP_wait"
    /\ expired[t]
    /\ Unpark(t)
    /\ UNCHANGED otherThanSQ

\* variant: every return of the timed wait is taken for a timeout
TWP_Wake_NoClock(t) ==
    /\ t \notin m_cond
    /\ Lock(t, "TWP_wait", "TWP_timeout", NoVal)
    /\ UNCHANGED otherThanSQ

\* wait_until(lk, wakeUpTime) returns with the mutex owned again: timeout if
\* the clock has reached wakeUpTime, no_timeout otherwise
TWP_Wake(t) ==
    /\ t \notin m_cond
    /\ Lock(t, "TWP_wait", IF expired[t] THEN "TWP_timeout" ELSE "TWP_crit", NoVal)
    /\ UNCHANGED otherThanSQ

\* variant: the timed-out call broadcasts before it returns false
TWP_Timeout_Notifies(t) ==
    /\ pc[t] = "TWP_timeout"
    /\ IF TWP_Pred
         THEN RemoveAndNotify(t, TRUE)
         ELSE /\ Return(t, FALSE, NoVal)
              /\ m_cond' = NotifyAll(m_cond)
              /\ notified' = TRUE
              /\ UNCHANGED <<m_theQueue, m_maximumSize, stored, removed>>
    /\ UNCHANGED otherThanSQ

\* "return pred();" after a timeout, and the rest of the call
TWP_Timeout(t) ==
    /\ pc[t] = "TWP_timeout"
    /\ IF TWP_Pred
         THEN RemoveAndNotify(t, TRUE)
         ELSE ReturnOnly(t, FALSE)
    /\ UNCHANGED otherThanSQ

\* a spurious wakeup of a thread parked on the condition variable
SpuriousWakeup(t) ==
    /\ Unpark(t)
    /\ UNCHANGED otherThanSQ

\* the steps of a thread inside a call
StepSQ(t) ==
    \/ Push_Crit(t) \/ Push_Wake(t)
    \/ TryPush_Crit(t)
    \/ Pop_Crit(t) \/ Pop_Wake(t)
    \/ TryPop_Crit(t)
    \/ TWP_Crit(t) \/ TWP_TimedOut(t) \/ TWP_Wake(t) \/ TWP_Timeout(t)

\* a thread calls one of the five operations
CallSQ(t) ==
    \/ Push_Lock(t) \/ TryPush_Lock(t)
    \/ Pop_Lock(t) \/ TryPop_Lock(t) \/ TWP_Lock(t)

NextSQ ==
    \E t \in SQThreads :
        \/ CallSQ(t)
        \/ StepSQ(t)
        \/ TWP_Deadline(t)
        \/ SpuriousWakeup(t)

SpecSQ == InitSQ /\ [][NextSQ]_vars

\* Fair scheduling: a thread inside a call keeps being scheduled and gets the
\* mutex if it is free again and again; the clock advances. Nothing forces a
\* thread to make a call.
FairnessSQ ==
    \A t \in SQThreads :
        /\ SF_vars(StepSQ(t))
        /\ WF_vars(TWP_Deadline(t))

FairSpecSQ == SpecSQ /\ FairnessSQ

(***************************************************************************)
(* SafeQueue<T>::operator=(const SafeQueue<T>&) between two queues: "a",   *)
(* the queue of the operations above, and "b", a second SafeQueue          *)
(***************************************************************************)
Queues == {"a", "b"}

\* the thread calling the five operations on queue "a"
AsgUsers == {"t1"}

\* the sequences of at most n values
SeqsUpTo(n) == UNION {[1..k -> Values] : k \in 0..n}

\* the members of queue q
ItemsOf(q) == IF q = "a" THEN m_theQueue ELSE other_theQueue

MaximumSizeOf(q) == IF q = "a" THEN m_maximumSize ELSE other_maximumSize

MutexOf(q) == IF q = "a" THEN m_mutex ELSE other_mutex

\* variant: the signal is needed only when the queue assigned to was empty
WakeUpSignalNeeded_EmptyOnly(a_dst, a_from) ==
    ItemsOf(a_dst) = <<>> /\ ItemsOf(a_from) # <<>>

\* SafeQueue<T>::WakeUpSignalNeeded(a_src) called on a_dst
WakeUpSignalNeeded(a_dst, a_from) ==
    IF ItemsOf(a_dst) = <<>> /\ ItemsOf(a_from) # <<>>
      THEN TRUE
      ELSE IF /\ Len(ItemsOf(a_dst)) >= MaximumSizeOf(a_dst)
              /\ Len(ItemsOf(a_from)) < MaximumSizeOf(a_from)
             THEN TRUE
             ELSE FALSE

\* calls of operator= in progress
AssignsInFlight == Cardinality({x \in Assigners : apc[x] # "idle"})

\* a step of operator= that touches neither the contents of a queue nor a
\* condition variable
AssignFrame ==
    /\ ret' = NoRet
    /\ notified' = FALSE
    /\ other_notified' = FALSE
    /\ UNCHANGED <<m_theQueue, m_maximumSize, m_cond, pc, a_elem, expired,
                   stored, removed, other_theQueue, other_maximumSize>>
    /\ UNCHANGED <<lfqVars, countVars, ctVars, sgVars, vtVars>>

\* thread x becomes the owner of the mutex of queue q, which is free
Acquire(x, q) ==
    /\ MutexOf(q) = NoThread
    /\ m_mutex' = IF q = "a" THEN x ELSE m_mutex
    /\ other_mutex' = IF q = "b" THEN x ELSE other_mutex

\* the queue whose mutex thread x does not own yet
NotHeldBy(x) ==
    IF MutexOf(a_this[x]) = x THEN a_src[x] ELSE a_this[x]

\* a thread calls a_dst = a_from; "if (this != &a_src)" skips everything for
\* a self-assignment, otherwise the two unique_locks are built with defer_lock
Assign_Call(x) ==
    /\ apc[x] = "idle"
    /\ assigns + AssignsInFlight < MaxAssigns
    /\ \E a_dst, a_from \in Queues :
         IF a_dst = a_from
           THEN /\ assigns' = assigns + 1
                /\ UNCHANGED <<apc, a_this, a_src>>
           ELSE /\ a_this' = [a_this EXCEPT ![x] = a_dst]
                /\ a_src' = [a_src EXCEPT ![x] = a_from]
                /\ apc' = [apc EXCEPT ![x] = "lock"]
                /\ assigns' = assigns
    /\ UNCHANGED <<m_mutex, other_mutex>>
    /\ AssignFrame

\* std::lock(this_lk, src_lk) locks the two mutexes by a sequence of lock,
\* try_lock and unlock that is not specified further and cannot deadlock:
\* it blocks on a mutex only while it owns none ...
Assign_LockFirstOn(x, q) ==
    /\ apc[x] = "lock"
    /\ q \in {a_this[x], a_src[x]}
    /\ Acquire(x, q)
    /\ apc' = [apc EXCEPT ![x] = "try"]
    /\ UNCHANGED <<a_this, a_src, assigns>>
    /\ AssignFrame

Assign_LockFirst(x) == \E q \in Queues : Assign_LockFirstOn(x, q)

\* ... tries the other one, and owns both if that one is free ...
Assign_TrySecond(x) ==
    /\ apc[x] = "try"
    /\ Acquire(x, NotHeldBy(x))
    /\ apc' = [apc EXCEPT ![x] = "copy"]
    /\ UNCHANGED <<a_this, a_src, assigns>>
    /\ AssignFrame

\* variant: the second mutex is locked with lock(): the thread keeps the
\* first one while it waits
Assign_BackOff_Holds(x) ==
    /\ apc[x] = "try"
    /\ MutexOf(NotHeldBy(x)) # NoThread
    /\ UNCHANGED vars

\* ... and unlocks the one it owns and starts again if it is not
Assign_BackOff(x) ==
    /\ apc[x] = "try"
    /\ MutexOf(NotHeldBy(x)) # NoThread
    /\ m_mutex' = IF m_mutex = x THEN NoThread ELSE m_mutex
    /\ other_mutex' = IF other_mutex = x THEN NoThread ELSE other_mutex
    /\ apc' = [apc EXCEPT ![x] = "lock"]
    /\ UNCHANGED <<a_this, a_src, assigns>>
    /\ AssignFrame

\* with both mutexes owned: wakeUpWaitingThreads = WakeUpSignalNeeded(a_src);
\* m_maximumSize and m_theQueue are copied; if (wakeUpWaitingThreads)
\* this->m_cond.notify_all(); the unique_locks go out of scope; return *this.
\* No thread waits on the condition variable of queue "b".
Assign_Copy(x) ==
    LET wakeUpWaitingThreads == WakeUpSignalNeeded(a_this[x], a_src[x]) IN
    /\ apc[x] = "copy"
    /\ IF a_this[x] = "a"
         THEN /\ m_maximumSize' = other_maximumSize
              /\ m_theQueue' = other_theQueue
              /\ m_cond' = IF wakeUpWaitingThreads THEN NotifyAll(m_cond) ELSE m_cond
              /\ notified' = wakeUpWaitingThreads
              /\ other_notified' = FALSE
              /\ UNCHANGED <<other_theQueue, other_maximumSize>>
         ELSE /\ other_maximumSize' = m_maximumSize
              /\ other_theQueue' = m_theQueue
              /\ other_notified' = wakeUpWaitingThreads
              /\ notified' = FALSE
              /\ UNCHANGED <<m_theQueue, m_maximumSize, m_cond>>
    /\ m_mutex' = NoThread
    /\ other_mutex' = NoThread
    /\ apc' = [apc EXCEPT ![x] = "idle"]
    /\ assigns' = assigns + 1
    /\ a_this' = [a_this EXCEPT ![x] = "a"]
    /\ a_src' = [a_src EXCEPT ![x] = "a"]
    /\ ret' = NoRet
    /\ UNCHANGED <<pc, a_elem, expired, stored, removed>>
    /\ UNCHANGED <<lfqVars, countVars, ctVars, sgVars, vtVars>>

\* the steps of a thread inside operator=
AssignSteps(x) ==
    \/ Assign_LockFirst(x)
    \/ Assign_TrySecond(x)
    \/ Assign_BackOff(x)
    \/ Assign_Copy(x)

\* queue "a" is constructed empty and "b" holds any contents within its
\* capacity when the threads start
InitAsg ==
    /\ \E a_maxSize \in 1..MaxCapacity : ConstructSQ(a_maxSize)
    /\ \E a_maxSize \in 1..MaxCapacity :
         \E a_items \in SeqsUpTo(a_maxSize) : ConstructOther(a_maxSize, a_items)
    /\ ConstructLFQ("SingleProducer", 2)
    /\ ConstructCT
    /\ ConstructSingleton
    /\ ConstructVTimer(0)

NextAsg ==
    \/ \E t \in AsgUsers :
          \/ CallSQ(t)
          \/ StepSQ(t)
          \/ TWP_Deadline(t)
          \/ SpuriousWakeup(t)
    \/ \E x \in Assigners : Assign_Call(x) \/ AssignSteps(x)

SpecAsg == InitAsg /\ [][NextAsg]_vars

\* the two assigning threads alone
NextAsgPair == \E x \in Assigners : Assign_Call(x) \/ AssignSteps(x)

SpecAsgPair == InitAsg /\ [][NextAsgPair]_vars

\* Fair scheduling: a thread inside a call keeps being scheduled, and a
\* thread that finds a mutex free again and again gets it; this holds for
\* each of the two mutexes std::lock can start with.
FairnessAsg ==
    \A x \in Assigners :
        /\ \A q \in Queues : SF_vars(Assign_LockFirstOn(x, q))
        /\ SF_vars(Assign_TrySecond(x))
        /\ WF_vars(Assign_BackOff(x))
        /\ WF_vars(Assign_Copy(x))

FairSpecAsg == SpecAsgPair /\ FairnessAsg

(***************************************************************************)
(* Singleton<TClass>::Instance (singleton.h)                               *)
(***************************************************************************)

\* a step of Instance() by thread t to position to
SgGoto(t, to) ==
    /\ spc' = [spc EXCEPT ![t] = to]
    /\ sret' = NoSgRet
    /\ UNCHANGED <<sqVars, lfqVars, countVars, ctVars, asgVars, vtVars>>

\* a thread calls Instance() (GetPtr() is &Instance())
Sg_Call(t) ==
    /\ spc[t] = "idle"
    /\ instanceCalls < MaxInstanceCalls
    /\ instanceCalls' = instanceCalls + 1
    /\ SgGoto(t, "check")
    /\ UNCHANGED <<m_instancePtr, m_lock, newObj, instances, built>>

\* if (m_instancePtr == 0): a read of the plain pointer without the lock
Sg_Check(t) ==
    /\ spc[t] = "check"
    /\ SgGoto(t, IF m_instancePtr = 0 THEN "spin" ELSE "return")
    /\ UNCHANGED <<m_instancePtr, m_lock, newObj, instances, built, instanceCalls>>

\* while (std::atomic_exchange_explicit(&m_lock, true, acquire)) ;
\* an exchange that finds true changes nothing, so the step is taken when
\* the exchange finds false
Sg_Spin(t) ==
    /\ spc[t] = "spin"
    /\ m_lock = FALSE
    /\ m_lock' = TRUE
    /\ SgGoto(t, "recheck")
    /\ UNCHANGED <<m_instancePtr, newObj, instances, built, instanceCalls>>

\* if (m_instancePtr == 0), inside the spinlock
Sg_Recheck(t) ==
    /\ spc[t] = "recheck"
    /\ SgGoto(t, IF m_instancePtr = 0 THEN "new" ELSE "release")
    /\ UNCHANGED <<m_instancePtr, m_lock, newObj, instances, built, instanceCalls>>

\* m_instancePtr = new TClass(): the object is allocated; m_instancePtr is
\* not atomic and is read by Sg_Check outside the lock, so nothing orders the
\* store of the pointer and the stores of the constructor for such a reader:
\* it can see the constructor finished first (to "publish") or the pointer
\* stored first (to "construct")
Sg_New(t) ==
    /\ spc[t] = "new"
    /\ instances' = instances + 1
    /\ newObj' = [newObj EXCEPT ![t] = instances + 1]
    /\ \/ /\ built' = built \cup {instances + 1}
          /\ SgGoto(t, "publish")
          /\ UNCHANGED m_instancePtr
       \/ /\ m_instancePtr' = instances + 1
          /\ SgGoto(t, "construct")
          /\ UNCHANGED built
    /\ UNCHANGED <<m_lock, instanceCalls>>

\* the store of the pointer becomes visible after the constructor's stores
Sg_Publish(t) ==
    /\ spc[t] = "publish"
    /\ m_instancePtr' = newObj[t]
    /\ SgGoto(t, "release")
    /\ UNCHANGED <<m_lock, newObj, instances, built, instanceCalls>>

\* the constructor's stores become visible after the store of the pointer
Sg_Construct(t) ==
    /\ spc[t] = "construct"
    /\ built' = built \cup {newObj[t]}
    /\ SgGoto(t, "release")
    /\ UNCHANGED <<m_instancePtr, m_lock, newObj, instances, instanceCalls>>

\* std::atomic_store_explicit(&m_lock, false, release)
Sg_Release(t) ==
    /\ spc[t] = "release"
    /\ m_lock' = FALSE
    /\ SgGoto(t, "return")
    /\ UNCHANGED <<m_instancePtr, newObj, instances, built, instanceCalls>>

\* return *m_instancePtr
Sg_Return(t) ==
    /\ spc[t] = "return"
    /\ spc' = [spc EXCEPT ![t] = "idle"]
    /\ newObj' = [newObj EXCEPT ![t] = 0]
    /\ sret' = [thread |-> t, ptr |-> m_instancePtr,
                complete |-> m_instancePtr \in built]
    /\ UNCHANGED <<m_instancePtr, m_lock, instances, built, instanceCalls>>
    /\ UNCHANGED <<sqVars, lfqVars, countVars, ctVars, asgVars, vtVars>>

InitSg ==
    /\ ConstructSingleton
    /\ ConstructSQ(1)
    /\ ConstructLFQ("SingleProducer", 2)
    /\ ConstructCT
    /\ ConstructOther(1, <<>>)
    /\ ConstructVTimer(0)

NextSg ==
    \E t \in SgThreads :
        \/ Sg_Call(t) \/ Sg_Check(t) \/ Sg_Spin(t) \/ Sg_Recheck(t)
        \/ Sg_New(t) \/ Sg_Publish(t) \/ Sg_Construct(t)
        \/ Sg_Release(t) \/ Sg_Return(t)

SpecSg == InitSg /\ [][NextSg]_vars

(***************************************************************************)
(* ConsumerThread<T>: a worker thread that consumes what is produced into  *)
(* its SafeQueue m_consumableQueue                                         *)
(***************************************************************************)

\* the process has not been ended by a fault: its threads take steps
Running == ~crashed

\* ---- ConsumerThread<T>::Produce: assert(m_producerThread.get() != 0);
\* return m_consumableQueue.TryPush(a_data);
Produce(t) ==
    /\ Running
    /\ m_producerThread = "thread"
    /\ t = Controller => jpc = "none"
    /\ TryPush_Lock(t)

\* ---- ConsumerThread<T>::ProduceOrBlock: assert(m_producerThread.get() != 0);
\* m_consumableQueue.Push(a_data);
ProduceOrBlock(t) ==
    /\ Running
    /\ m_producerThread = "thread"
    /\ t = Controller => jpc = "none"
    /\ Push_Lock(t)

\* the steps of a producing thread inside TryPush or Push, and its wakeups
ProduceSteps(t) ==
    \/ Running /\ TryPush_Crit(t)
    \/ Running /\ Push_Crit(t)
    \/ Running /\ Push_Wake(t)
    \/ Running /\ SpuriousWakeup(t)

\* ---- ConsumerThread<T>::ThreadRoutine
\* this->m_initDelegate();
Routine_Init ==
    /\ Running
    /\ wpc = "init"
    /\ initCalls' = initCalls + 1
    /\ wpc' = "test"
    /\ UNCHANGED <<m_terminate, m_producerThread, thisElem, jpc, consumed,
                   joins, crashed, consumedAtStop>>
    /\ UNCHANGED otherThanCT

\* a loop that ends whatever m_terminate holds
Routine_Test_Exits ==
    /\ Running
    /\ wpc = "test"
    /\ wpc' = "done"
    /\ UNCHANGED <<m_terminate, m_producerThread, thisElem, jpc, initCalls,
                   consumed, joins, crashed, consumedAtStop>>
    /\ UNCHANGED otherThanCT

\* while (this->m_terminate.load() == false)
Routine_Test ==
    /\ Running
    /\ wpc = "test"
    /\ wpc' = IF m_terminate THEN "done" ELSE "twp"
    /\ UNCHANGED <<m_terminate, m_producerThread, thisElem, jpc, initCalls,
                   consumed, joins, crashed, consumedAtStop>>
    /\ UNCHANGED otherThanCT

\* m_consumableQueue.TimedWaitPop(thisElem, ...) is called
Routine_Call ==
    /\ Running
    /\ wpc = "twp"
    /\ TWP_Lock(Worker)

\* a worker that is handed the newest element of the queue
Routine_Got_Newest ==
    /\ RemoveAndNotify(Worker, TRUE)
    /\ thisElem' = QueueFront_Back(m_theQueue)
    /\ wpc' = "consume"

\* TimedWaitPop returned true: the worker goes on to the consume delegate
\* with the element in thisElem
Routine_Got ==
    /\ RemoveAndNotify(Worker, TRUE)
    /\ thisElem' = QueueFront(m_theQueue)
    /\ wpc' = "consume"

\* TimedWaitPop returned false: the worker goes back to the test of its loop
Routine_GotNothing ==
    /\ ReturnOnly(Worker, FALSE)
    /\ wpc' = "test"
    /\ UNCHANGED thisElem

\* TWP_Crit as executed by the worker
Routine_Crit ==
    /\ Running
    /\ wpc = "twp"
    /\ pc[Worker] = "TWP_crit"
    /\ IF TWP_Pred
         THEN Routine_Got
         ELSE Wait(Worker, "TWP_wait") /\ UNCHANGED <<thisElem, wpc>>
    /\ UNCHANGED <<m_terminate, m_producerThread, jpc, initCalls, consumed,
                   joins, crashed, consumedAtStop>>
    /\ UNCHANGED <<lfqVars, countVars, restVars>>

\* TWP_Timeout as executed by the worker
Routine_Timeout ==
    /\ Running
    /\ wpc = "twp"
    /\ pc[Worker] = "TWP_timeout"
    /\ IF TWP_Pred THEN Routine_Got ELSE Routine_GotNothing
    /\ UNCHANGED <<m_terminate, m_producerThread, jpc, initCalls, consumed,
                   joins, crashed, consumedAtStop>>
    /\ UNCHANGED <<lfqVars, countVars, restVars>>

\* the steps of the timed wait that do not end the call
Routine_Waiting ==
    \/ Running /\ TWP_TimedOut(Worker)
    \/ Running /\ TWP_Wake(Worker)
    \/ Running /\ SpuriousWakeup(Worker)

\* steady_clock reaches wakeUpTime while the worker is in wait_until
Routine_Deadline == Running /\ TWP_Deadline(Worker)

\* a worker that drops the element instead of calling the consume delegate
Routine_Consume_Drop ==
    /\ Running
    /\ wpc = "consume"
    /\ thisElem' = NoVal
    /\ wpc' = "test"
    /\ UNCHANGED <<m_terminate, m_producerThread, jpc, initCalls, consumed,
                   joins, crashed, consumedAtStop>>
    /\ UNCHANGED otherThanCT

\* this->m_consumeDelegate(thisElem);
Routine_Consume ==
    /\ Running
    /\ wpc = "consume"
    /\ consumed' = Append(consumed, thisElem)
    /\ thisElem' = NoVal
    /\ wpc' = "test"
    /\ UNCHANGED <<m_terminate, m_producerThread, jpc, initCalls, joins,
                   crashed, consumedAtStop>>
    /\ UNCHANGED otherThanCT

\* ---- ConsumerThread<T>::Join
\* m_terminate.store(true);
Join_Store ==
    /\ Running
    /\ jpc = "none"
    /\ pc[Controller] = "idle"
    /\ joins < MaxJoins
    /\ m_terminate' = TRUE
    /\ consumedAtStop' = IF m_terminate THEN consumedAtStop ELSE Len(consumed)
    /\ jpc' = "join"
    /\ UNCHANGED <<m_producerThread, wpc, thisElem, initCalls, consumed,
                   joins, crashed>>
    /\ UNCHANGED otherThanCT

\* a Join that does not wait for the worker
Join_Join_NoWait ==
    /\ Running
    /\ jpc = "join"
    /\ m_producerThread = "thread"
    /\ jpc' = "reset"
    /\ UNCHANGED <<m_terminate, m_producerThread, wpc, thisElem, initCalls,
                   consumed, joins, crashed, consumedAtStop>>
    /\ UNCHANGED otherThanCT

\* m_producerThread->join(); returns when ThreadRoutine has returned
Join_Join ==
    /\ Running
    /\ jpc = "join"
    /\ m_producerThread = "thread"
    /\ wpc = "done"
    /\ jpc' = "reset"
    /\ UNCHANGED <<m_terminate, m_producerThread, wpc, thisElem, initCalls,
                   consumed, joins, crashed, consumedAtStop>>
    /\ UNCHANGED otherThanCT

\* m_producerThread->join() when reset() has emptied m_producerThread: the
\* null pointer is dereferenced; the process is ended by the fault, or the
\* call goes on as if there were nothing to wait for
Join_JoinNull ==
    /\ Running
    /\ jpc = "join"
    /\ m_producerThread = "null"
    /\ \/ crashed' = TRUE /\ UNCHANGED jpc
       \/ jpc' = "reset" /\ UNCHANGED crashed
    /\ UNCHANGED <<m_terminate, m_producerThread, wpc, thisElem, initCalls,
                   consumed, joins, consumedAtStop>>
    /\ UNCHANGED otherThanCT

\* m_producerThread.reset(); and Join returns
Join_Reset ==
    /\ Running
    /\ jpc = "reset"
    /\ m_producerThread' = "null"
    /\ joins' = joins + 1
    /\ jpc' = "none"
    /\ UNCHANGED <<m_terminate, wpc, thisElem, initCalls, consumed, crashed,
                   consumedAtStop>>
    /\ UNCHANGED otherThanCT

\* the steps of the worker
RoutineSteps ==
    \/ Routine_Init \/ Routine_Test \/ Routine_Call \/ Routine_Crit
    \/ Routine_Timeout \/ Routine_Waiting \/ Routine_Consume

\* the steps of Join after its first statement
JoinSteps == Join_Join \/ Join_JoinNull \/ Join_Reset

NextCT ==
    \/ \E t \in ProducerThreads : Produce(t) \/ ProduceOrBlock(t) \/ ProduceSteps(t)
    \/ RoutineSteps
    \/ Routine_Deadline
    \/ Join_Store
    \/ JoinSteps

SpecCT == InitSQ /\ [][NextCT]_vars

\* Fair scheduling: the worker and the controller inside Join keep being
\* scheduled, the worker gets the mutex again and again, the delegates
\* return, and the clock reaches wakeUpTime however often the worker is woken
\* before. Nothing forces a thread to produce or to call Join.
FairnessCT ==
    /\ SF_vars(RoutineSteps)
    /\ SF_vars(Routine_Deadline)
    /\ WF_vars(JoinSteps)
    /\ \A t \in ProducerThreads : SF_vars(ProduceSteps(t))

FairSpecCT == SpecCT /\ FairnessCT

(***************************************************************************)
(* ArrayLockFreeQueue<ELEM_T, Q_SIZE, Q_TYPE>, std::atomic version         *)
(***************************************************************************)

\* the counters are unsigned integers of CounterBits bits
CountMod == 2 ^ CounterBits

\* an increment that stops at the largest counter value
Inc_Saturating(a_count) ==
    IF a_count + 1 = CountMod THEN a_count ELSE a_count + 1

\* a_count + 1 in unsigned arithmetic
Inc(a_count) == (a_count + 1) % CountMod

\* countToIndex(a_count)
countToIndex(a_count) == a_count % Q_SIZE

\* a full test that never finds the queue full
PushFindsFull_Never(a_writeIndex) == FALSE

\* the test "countToIndex(currentWriteIndex + 1) == countToIndex(m_readIndex.load())"
PushFindsFull(a_writeIndex) ==
    countToIndex(Inc(a_writeIndex)) = countToIndex(m_readIndex)

\* a_count - a_other in unsigned arithmetic
Minus(a_count, a_other) == (a_count + CountMod - a_other) % CountMod

\* size() without _WITH_LOCK_FREE_Q_KEEP_REAL_SIZE, from the two counters it
\* loads:
\*   if (countToIndex(currentWriteIndex) >= countToIndex(currentReadIndex))
\*       return (currentWriteIndex - currentReadIndex);
\*   else
\*       return (Q_SIZE + currentWriteIndex - currentReadIndex);
SizeFrom(a_writeIndex, a_readIndex) ==
    IF countToIndex(a_writeIndex) >= countToIndex(a_readIndex)
      THEN Minus(a_writeIndex, a_readIndex)
      ELSE Minus((Q_SIZE + a_writeIndex) % CountMod, a_readIndex)

\* size() called while no other call changes the counters: the single
\* producer version loads m_writeIndex, the multiple producers version
\* m_maximumReadIndex
size ==
    IF Q_TYPE = "MultipleProducers"
      THEN SizeFrom(m_maximumReadIndex, m_readIndex)
      ELSE SizeFrom(m_writeIndex, m_readIndex)

\* a full test that compares the write position itself with the read position
full_NoGap == countToIndex(m_writeIndex) = countToIndex(m_readIndex)

\* full() without _WITH_LOCK_FREE_Q_KEEP_REAL_SIZE, called while no other
\* call changes the counters: both versions load m_writeIndex and m_readIndex
full == countToIndex(Inc(m_writeIndex)) = countToIndex(m_readIndex)

\* the value an atomic's compare_exchange leaves in its first argument
\* (passed by reference) when the exchange fails: the value of the atomic
ExpectedAfterFailure(a_atomic, a_expected) == a_atomic

\* the slot written last (a stack would read this one)
ReadSlot_Newest(a_count) == m_theQueueLF[countToIndex((m_writeIndex + CountMod - 1) % CountMod)]

\* m_theQueue[countToIndex(currentReadIndex)]
ReadSlot(a_count) == m_theQueueLF[countToIndex(a_count)]

PushPcsLF == {"sp_check", "sp_store", "sp_inc",
              "mp_load", "mp_check", "mp_cas", "mp_store", "mp_commit",
              "cas_push_load", "cas_push_loadr", "cas_sp_store", "cas_sp_add",
              "cas_mp_cas", "cas_mp_store", "cas_mp_commit"}

\* push calls in progress
PushesInFlightLF == Cardinality({t \in LFThreads : lfpc[t] \in PushPcsLF})

\* the call of thread t returns r (and d through its reference parameter)
LFReturn(t, op, r, d) ==
    /\ lfpc' = [lfpc EXCEPT ![t] = "idle"]
    /\ lfret' = [op |-> op, rv |-> r, data |-> d]
    /\ a_data' = [a_data EXCEPT ![t] = NoVal]
    /\ currentWriteIndex' = [currentWriteIndex EXCEPT ![t] = 0]
    /\ currentReadIndex' = [currentReadIndex EXCEPT ![t] = 0]

\* thread t goes on to position to
LFGoto(t, to) ==
    /\ lfpc' = [lfpc EXCEPT ![t] = to]
    /\ lfret' = NoLFRet

\* ---- ArrayLockFreeQueueSingleProducer::push
\* push(a_data) is called: currentWriteIndex = m_writeIndex.load()
SP_push_load(p) ==
    /\ Q_TYPE = "SingleProducer"
    /\ lfpc[p] = "idle"
    /\ Len(pushed) + PushesInFlightLF < MaxPushes
    /\ \E v \in Values : a_data' = [a_data EXCEPT ![p] = v]
    /\ currentWriteIndex' = [currentWriteIndex EXCEPT ![p] = m_writeIndex]
    /\ LFGoto(p, "sp_check")
    /\ UNCHANGED <<Q_TYPE, Q_SIZE, reserved, currentMaximumReadIndex, m_theQueueLF, m_writeIndex, m_readIndex,
                   m_maximumReadIndex, currentReadIndex, pushed, popped, unpopped>>
    /\ UNCHANGED otherThanLFQ

\* if (countToIndex(currentWriteIndex + 1) == countToIndex(m_readIndex.load()))
\*     return false;
SP_push_check(p) ==
    /\ lfpc[p] = "sp_check"
    /\ IF PushFindsFull(currentWriteIndex[p])
         THEN LFReturn(p, "push", FALSE, NoVal)
         ELSE LFGoto(p, "sp_store")
              /\ UNCHANGED <<a_data, currentWriteIndex, currentReadIndex>>
    /\ UNCHANGED <<Q_TYPE, Q_SIZE, reserved, currentMaximumReadIndex, m_theQueueLF, m_writeIndex, m_readIndex,
                   m_maximumReadIndex, pushed, popped, unpopped>>
    /\ UNCHANGED otherThanLFQ

\* m_theQueue[countToIndex(currentWriteIndex)] = a_data
StoreSlot(p, to) ==
    /\ m_theQueueLF' =
         [m_theQueueLF EXCEPT ![countToIndex(currentWriteIndex[p])] = a_data[p]]
    /\ unpopped' = unpopped \cup {countToIndex(currentWriteIndex[p])}
    /\ LFGoto(p, to)
    /\ UNCHANGED <<Q_TYPE, Q_SIZE, reserved, currentMaximumReadIndex, m_writeIndex, m_readIndex, m_maximumReadIndex,
                   currentWriteIndex, currentReadIndex, a_data, pushed, popped>>

SP_push_store(p) ==
    /\ lfpc[p] = "sp_store"
    /\ StoreSlot(p, "sp_inc")
    /\ UNCHANGED otherThanLFQ

\* m_writeIndex.fetch_add(1); return true
SP_push_inc(p) ==
    /\ lfpc[p] = "sp_inc"
    /\ m_writeIndex' = Inc(m_writeIndex)
    /\ pushed' = Append(pushed, a_data[p])
    /\ LFReturn(p, "push", TRUE, NoVal)
    /\ UNCHANGED <<Q_TYPE, Q_SIZE, reserved, currentMaximumReadIndex, m_theQueueLF, m_readIndex, m_maximumReadIndex,
                   popped, unpopped>>
    /\ UNCHANGED otherThanLFQ

\* ---- ArrayLockFreeQueueMultipleProducers::push
\* currentWriteIndex = m_writeIndex.load()
LoadWriteIndex(p) ==
    /\ currentWriteIndex' = [currentWriteIndex EXCEPT ![p] = m_writeIndex]
    /\ LFGoto(p, "mp_check")
    /\ UNCHANGED <<Q_TYPE, Q_SIZE, reserved, currentMaximumReadIndex, m_theQueueLF, m_writeIndex, m_readIndex,
                   m_maximumReadIndex, currentReadIndex, pushed, popped, unpopped>>

\* the argument of the next push of producer p. runProducer passes its loop
\* index, which goes up by one with every push that finds room; push never
\* looks at a_data, and here every producer counts from a base of its own
\* so that the elements of different producers can be told apart.
ProducerBase(p) == IF p = "p1" THEN 0 ELSE MaxPushes

NextArgument(p) ==
    ProducerBase(p)
      + Cardinality({i \in 1..Len(reserved) : reserved[i].by = p}) + 1

\* every value a producer can pass
PushedValues == 1..(2 * MaxPushes)

\* push(a_data) is called and enters its first loop
MP_push_call(p) ==
    /\ Q_TYPE = "MultipleProducers"
    /\ lfpc[p] = "idle"
    /\ Len(pushed) + PushesInFlightLF < MaxPushes
    /\ a_data' = [a_data EXCEPT ![p] = NextArgument(p)]
    /\ LoadWriteIndex(p)
    /\ UNCHANGED otherThanLFQ

\* the first loop starts again after a failed exchange
MP_push_load(p) ==
    /\ lfpc[p] = "mp_load"
    /\ LoadWriteIndex(p)
    /\ UNCHANGED a_data
    /\ UNCHANGED otherThanLFQ

MP_push_check(p) ==
    /\ lfpc[p] = "mp_check"
    /\ IF PushFindsFull(currentWriteIndex[p])
         THEN LFReturn(p, "push", FALSE, NoVal)
         ELSE LFGoto(p, "mp_cas")
              /\ UNCHANGED <<a_data, currentWriteIndex, currentReadIndex>>
    /\ UNCHANGED <<Q_TYPE, Q_SIZE, reserved, currentMaximumReadIndex, m_theQueueLF, m_writeIndex, m_readIndex,
                   m_maximumReadIndex, pushed, popped, unpopped>>
    /\ UNCHANGED otherThanLFQ

\* m_writeIndex.compare_exchange_strong(currentWriteIndex, currentWriteIndex + 1)
MP_push_cas(p) ==
    /\ lfpc[p] = "mp_cas"
    /\ IF m_writeIndex = currentWriteIndex[p]
         THEN /\ m_writeIndex' = Inc(currentWriteIndex[p])
              /\ reserved' = Append(reserved, [by |-> p, val |-> a_data[p]])
              /\ LFGoto(p, "mp_store")
              /\ UNCHANGED currentWriteIndex
         ELSE /\ currentWriteIndex' =
                   [currentWriteIndex EXCEPT
                      ![p] = ExpectedAfterFailure(m_writeIndex, currentWriteIndex[p])]
              /\ LFGoto(p, "mp_load")
              /\ UNCHANGED <<m_writeIndex, reserved>>
    /\ UNCHANGED <<Q_TYPE, Q_SIZE, currentMaximumReadIndex, m_theQueueLF, m_readIndex, m_maximumReadIndex,
                   currentReadIndex, a_data, pushed, popped, unpopped>>
    /\ UNCHANGED otherThanLFQ

MP_push_store(p) ==
    /\ lfpc[p] = "mp_store"
    /\ StoreSlot(p, "mp_commit")
    /\ UNCHANGED otherThanLFQ

\* one evaluation of
\*   while (!m_maximumReadIndex.compare_exchange_weak(
\*               currentWriteIndex, (currentWriteIndex + 1))) {}
\* and, when the exchange succeeds, return true. (A spurious failure of the
\* weak exchange changes nothing.)
MP_push_commit(p) ==
    /\ lfpc[p] = "mp_commit"
    /\ IF m_maximumReadIndex = currentWriteIndex[p]
         THEN /\ m_maximumReadIndex' = Inc(currentWriteIndex[p])
              /\ pushed' = Append(pushed, a_data[p])
              /\ LFReturn(p, "push", TRUE, NoVal)
         ELSE /\ currentWriteIndex' =
                   [currentWriteIndex EXCEPT
                      ![p] = ExpectedAfterFailure(m_maximumReadIndex,
                                                  currentWriteIndex[p])]
              /\ LFGoto(p, "mp_commit")
              /\ UNCHANGED <<m_maximumReadIndex, pushed, a_data, currentReadIndex>>
    /\ UNCHANGED <<Q_TYPE, Q_SIZE, reserved, currentMaximumReadIndex, m_theQueueLF, m_writeIndex, m_readIndex,
                   popped, unpopped>>
    /\ UNCHANGED otherThanLFQ

\* ---- pop (ArrayLockFreeQueueSingleProducer::pop and
\*           ArrayLockFreeQueueMultipleProducers::pop)
\* currentReadIndex = m_readIndex.load()
LoadReadIndex(c) ==
    /\ currentReadIndex' = [currentReadIndex EXCEPT ![c] = m_readIndex]
    /\ LFGoto(c, "pop_check")
    /\ UNCHANGED <<Q_TYPE, Q_SIZE, reserved, currentMaximumReadIndex, m_theQueueLF, m_writeIndex, m_readIndex,
                   m_maximumReadIndex, currentWriteIndex, pushed, popped, unpopped>>

\* pop(a_data) is called and enters its loop
Pop_call(c) ==
    /\ lfpc[c] = "idle"
    /\ a_data' = [a_data EXCEPT ![c] = NoVal]
    /\ LoadReadIndex(c)
    /\ UNCHANGED otherThanLFQ

\* the loop starts again after a failed exchange
Pop_load(c) ==
    /\ lfpc[c] = "pop_load"
    /\ LoadReadIndex(c)
    /\ UNCHANGED a_data
    /\ UNCHANGED otherThanLFQ

\* an empty test that never finds the queue empty
PopFindsEmpty_Never(a_readIndex, a_upper) == FALSE

\* the test "countToIndex(currentReadIndex) == countToIndex(a_upper)"
PopFindsEmpty(a_readIndex, a_upper) ==
    countToIndex(a_readIndex) = countToIndex(a_upper)

\* if (countToIndex(currentReadIndex) == countToIndex(a_upper)) return false;
PopCheck(c, a_upper) ==
    /\ lfpc[c] = "pop_check"
    /\ IF PopFindsEmpty(currentReadIndex[c], a_upper)
         THEN LFReturn(c, "pop", FALSE, a_data[c])
         ELSE LFGoto(c, "pop_read")
              /\ UNCHANGED <<a_data, currentWriteIndex, currentReadIndex>>
    /\ UNCHANGED <<Q_TYPE, Q_SIZE, reserved, currentMaximumReadIndex, m_theQueueLF, m_writeIndex, m_readIndex,
                   m_maximumReadIndex, pushed, popped, unpopped>>

\* single producer: the upper bound is m_writeIndex.load()
SP_pop_check(c) ==
    /\ Q_TYPE = "SingleProducer"
    /\ PopCheck(c, m_writeIndex)
    /\ UNCHANGED otherThanLFQ

\* multiple producers: the upper bound is m_maximumReadIndex.load()
MP_pop_check(c) ==
    /\ Q_TYPE = "MultipleProducers"
    /\ PopCheck(c, m_maximumReadIndex)
    /\ UNCHANGED otherThanLFQ

\* what a read of an array element yields: the constructors do not
\* initialise m_theQueue, so an element that was never assigned reads as
\* any value
Observed(a_slot) ==
    IF a_slot = NoVal THEN {NoVal, 1} ELSE {a_slot}

\* a_data = m_theQueue[countToIndex(currentReadIndex)]
Pop_read(c) ==
    /\ lfpc[c] = "pop_read"
    /\ \E v \in Observed(ReadSlot(currentReadIndex[c])) :
          a_data' = [a_data EXCEPT ![c] = v]
    /\ LFGoto(c, "pop_cas")
    /\ UNCHANGED <<Q_TYPE, Q_SIZE, reserved, currentMaximumReadIndex, m_theQueueLF, m_writeIndex, m_readIndex,
                   m_maximumReadIndex, currentWriteIndex, currentReadIndex,
                   pushed, popped, unpopped>>
    /\ UNCHANGED otherThanLFQ

\* variant: the exchange on m_readIndex fails although nobody changed it
Pop_cas_Spurious(c) ==
    /\ lfpc[c] = "pop_cas"
    /\ currentReadIndex' = [currentReadIndex EXCEPT ![c] = m_readIndex]
    /\ LFGoto(c, "pop_load")
    /\ UNCHANGED <<m_readIndex, popped, unpopped, a_data, currentWriteIndex>>
    /\ UNCHANGED <<Q_TYPE, Q_SIZE, reserved, currentMaximumReadIndex, m_theQueueLF, m_writeIndex, m_maximumReadIndex,
                   pushed>>
    /\ UNCHANGED otherThanLFQ

\* if (m_readIndex.compare_exchange_strong(currentReadIndex, currentReadIndex + 1))
\*     return true;
Pop_cas(c) ==
    /\ lfpc[c] = "pop_cas"
    /\ IF m_readIndex = currentReadIndex[c]
         THEN /\ m_readIndex' = Inc(currentReadIndex[c])
              /\ popped' = Append(popped, a_data[c])
              /\ unpopped' = unpopped \ {countToIndex(currentReadIndex[c])}
              /\ LFReturn(c, "pop", TRUE, a_data[c])
         ELSE /\ currentReadIndex' =
                   [currentReadIndex EXCEPT
                      ![c] = ExpectedAfterFailure(m_readIndex, currentReadIndex[c])]
              /\ LFGoto(c, "pop_load")
              /\ UNCHANGED <<m_readIndex, popped, unpopped, a_data, currentWriteIndex>>
    /\ UNCHANGED <<Q_TYPE, Q_SIZE, reserved, currentMaximumReadIndex, m_theQueueLF, m_writeIndex, m_maximumReadIndex,
                   pushed>>
    /\ UNCHANGED otherThanLFQ

\* the steps of pop that both implementations share
PopSteps(c) ==
    \/ Pop_call(c) \/ Pop_load(c) \/ Pop_read(c) \/ Pop_cas(c)

\* ---- one producer, the single-producer implementation
SPProducer == "p1"

\* the consumer, where there is only one
SingleConsumer == "c1"

InitSPQ ==
    /\ \E a_size \in 2..MaxQSize : ConstructLFQ("SingleProducer", a_size)
    /\ ConstructSQ(1)
    /\ ConstructCT
    /\ ConstructRest

NextSPQ ==
    \/ SP_push_load(SPProducer)
    \/ SP_push_check(SPProducer)
    \/ SP_push_store(SPProducer)
    \/ SP_push_inc(SPProducer)
    \/ \E c \in Consumers : PopSteps(c) \/ SP_pop_check(c)

SpecSPQ == InitSPQ /\ [][NextSPQ]_vars

\* ---- the single-producer implementation built with
\* _WITH_LOCK_FREE_Q_KEEP_REAL_SIZE: push and pop keep m_count
\* m_writeIndex.fetch_add(1);
Count_push_inc(p) ==
    /\ lfpc[p] = "sp_inc"
    /\ m_writeIndex' = Inc(m_writeIndex)
    /\ pushed' = Append(pushed, a_data[p])
    /\ LFGoto(p, "sp_count")
    /\ UNCHANGED <<Q_TYPE, Q_SIZE, reserved, currentMaximumReadIndex,
                   m_theQueueLF, m_readIndex, m_maximumReadIndex, popped,
                   unpopped, a_data, currentWriteIndex, currentReadIndex>>
    /\ UNCHANGED <<sqVars, ctVars, restVars, m_count>>

\* m_count.fetch_add(1); return true;
Count_push_add(p) ==
    /\ lfpc[p] = "sp_count"
    /\ m_count' = Inc(m_count)
    /\ LFReturn(p, "push", TRUE, NoVal)
    /\ UNCHANGED <<Q_TYPE, Q_SIZE, reserved, currentMaximumReadIndex,
                   m_theQueueLF, m_writeIndex, m_readIndex, m_maximumReadIndex,
                   pushed, popped, unpopped>>
    /\ UNCHANGED <<sqVars, ctVars, restVars>>

\* if (m_readIndex.compare_exchange_strong(currentReadIndex, currentReadIndex + 1))
Count_pop_cas(c) ==
    /\ lfpc[c] = "pop_cas"
    /\ IF m_readIndex = currentReadIndex[c]
         THEN /\ m_readIndex' = Inc(currentReadIndex[c])
              /\ popped' = Append(popped, a_data[c])
              /\ unpopped' = unpopped \ {countToIndex(currentReadIndex[c])}
              /\ LFGoto(c, "pop_count")
              /\ UNCHANGED <<a_data, currentWriteIndex, currentReadIndex>>
         ELSE /\ currentReadIndex' =
                   [currentReadIndex EXCEPT
                      ![c] = ExpectedAfterFailure(m_readIndex, currentReadIndex[c])]
              /\ LFGoto(c, "pop_load")
              /\ UNCHANGED <<m_readIndex, popped, unpopped, a_data, currentWriteIndex>>
    /\ UNCHANGED <<Q_TYPE, Q_SIZE, reserved, currentMaximumReadIndex,
                   m_theQueueLF, m_writeIndex, m_maximumReadIndex, pushed>>
    /\ UNCHANGED <<sqVars, ctVars, restVars, m_count>>

\* m_count.fetch_sub(1); return true;
Count_pop_sub(c) ==
    /\ lfpc[c] = "pop_count"
    /\ m_count' = Minus(m_count, 1)
    /\ LFReturn(c, "pop", TRUE, a_data[c])
    /\ UNCHANGED <<Q_TYPE, Q_SIZE, reserved, currentMaximumReadIndex,
                   m_theQueueLF, m_writeIndex, m_readIndex, m_maximumReadIndex,
                   pushed, popped, unpopped>>
    /\ UNCHANGED <<sqVars, ctVars, restVars>>

\* size() with _WITH_LOCK_FREE_Q_KEEP_REAL_SIZE: return m_count.load();
size_Counted == m_count

NextCountQ ==
    \/ SP_push_load(SPProducer)
    \/ SP_push_check(SPProducer)
    \/ SP_push_store(SPProducer)
    \/ Count_push_inc(SPProducer)
    \/ Count_push_add(SPProducer)
    \/ \E c \in Consumers :
          \/ Pop_call(c) \/ Pop_load(c) \/ SP_pop_check(c) \/ Pop_read(c)
          \/ Count_pop_cas(c) \/ Count_pop_sub(c)

SpecCountQ == InitSPQ /\ [][NextCountQ]_vars

\* ---- the single-producer queue after almost 2^w pushes and as many
\* pops: empty, the counters just before their roll-over, the slots holding
\* values popped long ago
IsPowerOfTwo(n) == \E k \in 0..CounterBits : n = 2 ^ k

\* the queue of a_size slots in that state
PreAdvanced(a_size) ==
    /\ Q_TYPE = "SingleProducer"
    /\ Q_SIZE = a_size
    /\ \E v \in Values : m_theQueueLF = [i \in 0..(Q_SIZE - 1) |-> v]
    /\ \E a_margin \in 1..WrapMargin :
          /\ m_writeIndex = CountMod - a_margin
          /\ m_readIndex = CountMod - a_margin
    /\ m_maximumReadIndex = 0
    /\ lfpc = [t \in LFThreads |-> "idle"]
    /\ currentWriteIndex = [t \in LFThreads |-> 0]
    /\ currentReadIndex = [t \in LFThreads |-> 0]
    /\ a_data = [t \in LFThreads |-> NoVal]
    /\ lfret = NoLFRet
    /\ pushed = <<>>
    /\ popped = <<>>
    /\ unpopped = {}
    /\ reserved = <<>>
    /\ currentMaximumReadIndex = [t \in LFThreads |-> 0]
    /\ m_count = 0
    /\ ConstructSQ(1)
    /\ ConstructCT
    /\ ConstructRest

InitWrapQ ==
    \E a_size \in {n \in 2..(MaxQSize + 1) : IsPowerOfTwo(n)} : PreAdvanced(a_size)

SpecWrapQ == InitWrapQ /\ [][NextSPQ]_vars

\* ---- the same with an array size that does not divide 2^w
InitWrapOddQ ==
    \E a_size \in {n \in 2..(MaxQSize + 1) : ~IsPowerOfTwo(n)} : PreAdvanced(a_size)

SpecWrapOddQ == InitWrapOddQ /\ [][NextSPQ]_vars

\* ---- several producers, the multiple-producers implementation
InitMPQ ==
    /\ \E a_size \in 2..MaxQSize : ConstructLFQ("MultipleProducers", a_size)
    /\ ConstructSQ(1)
    /\ ConstructCT
    /\ ConstructRest

NextMPQ ==
    \/ \E p \in Producers :
          \/ MP_push_call(p) \/ MP_push_load(p) \/ MP_push_check(p)
          \/ MP_push_cas(p) \/ MP_push_store(p) \/ MP_push_commit(p)
    \/ \E c \in Consumers : PopSteps(c) \/ MP_pop_check(c)

SpecMPQ == InitMPQ /\ [][NextMPQ]_vars

(***************************************************************************)
(* ArrayLockFreeQueue, implementation on volatile counters and the CAS and *)
(* AtomicAdd macros (lock_free_queue_impl_single_producer.h and            *)
(* lock_free_queue_impl_multiple_producer.h)                               *)
(***************************************************************************)

CASTypes == {"SingleProducerCAS", "MultipleProducersCAS"}

\* what pop takes as the end of the readable elements: m_writeIndex with a
\* single producer, m_maximumReadIndex with several
UpperBound ==
    IF Q_TYPE \in {"SingleProducer", "SingleProducerCAS"}
      THEN m_writeIndex
      ELSE m_maximumReadIndex

\* CAS(a_ptr, a_oldVal, a_newVal) takes a_oldVal by value: a failed exchange
\* leaves the caller's variable as it was
OldValAfterFailure(a_atomic, a_oldVal) == a_oldVal

\* ---- push
\* currentWriteIndex = m_writeIndex
CAS_LoadWriteIndex(p) ==
    /\ currentWriteIndex' = [currentWriteIndex EXCEPT ![p] = m_writeIndex]
    /\ LFGoto(p, "cas_push_loadr")

\* push(a_data) is called by the single producer, which passes its loop
\* index as runProducer does
CAS_SP_push_call(p) ==
    /\ Q_TYPE = "SingleProducerCAS"
    /\ lfpc[p] = "idle"
    /\ Len(pushed) + PushesInFlightLF < MaxPushes
    /\ a_data' = [a_data EXCEPT ![p] = Len(pushed) + 1]
    /\ CAS_LoadWriteIndex(p)
    /\ UNCHANGED <<Q_TYPE, Q_SIZE, m_theQueueLF, m_writeIndex, m_readIndex,
                   m_maximumReadIndex, currentReadIndex, pushed, popped,
                   unpopped, reserved, currentMaximumReadIndex>>
    /\ UNCHANGED otherThanLFQ

\* push(a_data) is called by one of several producers
CAS_MP_push_call(p) ==
    /\ Q_TYPE = "MultipleProducersCAS"
    /\ lfpc[p] = "idle"
    /\ Len(pushed) + PushesInFlightLF < MaxPushes
    /\ a_data' = [a_data EXCEPT ![p] = NextArgument(p)]
    /\ CAS_LoadWriteIndex(p)
    /\ UNCHANGED <<Q_TYPE, Q_SIZE, m_theQueueLF, m_writeIndex, m_readIndex,
                   m_maximumReadIndex, currentReadIndex, pushed, popped,
                   unpopped, reserved, currentMaximumReadIndex>>
    /\ UNCHANGED otherThanLFQ

\* the do-while loop of the multiple-producers push starts again
CAS_MP_push_load(p) ==
    /\ lfpc[p] = "cas_push_load"
    /\ CAS_LoadWriteIndex(p)
    /\ UNCHANGED <<Q_TYPE, Q_SIZE, m_theQueueLF, m_writeIndex, m_readIndex,
                   m_maximumReadIndex, currentReadIndex, a_data, pushed,
                   popped, unpopped, reserved, currentMaximumReadIndex>>
    /\ UNCHANGED otherThanLFQ

\* currentReadIndex = m_readIndex;
\* if (countToIndex(currentWriteIndex + 1) == countToIndex(currentReadIndex))
\*     return false;
CAS_push_loadr(p) ==
    /\ lfpc[p] = "cas_push_loadr"
    /\ IF countToIndex(Inc(currentWriteIndex[p])) = countToIndex(m_readIndex)
         THEN LFReturn(p, "push", FALSE, NoVal)
         ELSE /\ currentReadIndex' = [currentReadIndex EXCEPT ![p] = m_readIndex]
              /\ LFGoto(p, IF Q_TYPE = "SingleProducerCAS"
                             THEN "cas_sp_store" ELSE "cas_mp_cas")
              /\ UNCHANGED <<a_data, currentWriteIndex>>
    /\ UNCHANGED <<Q_TYPE, Q_SIZE, m_theQueueLF, m_writeIndex, m_readIndex,
                   m_maximumReadIndex, pushed, popped, unpopped, reserved,
                   currentMaximumReadIndex>>
    /\ UNCHANGED otherThanLFQ

\* m_theQueue[countToIndex(currentWriteIndex)] = a_data
CAS_SP_push_store(p) ==
    /\ lfpc[p] = "cas_sp_store"
    /\ StoreSlot(p, "cas_sp_add")
    /\ UNCHANGED otherThanLFQ

\* AtomicAdd(&m_writeIndex, 1); return true
CAS_SP_push_add(p) ==
    /\ lfpc[p] = "cas_sp_add"
    /\ m_writeIndex' = Inc(m_writeIndex)
    /\ pushed' = Append(pushed, a_data[p])
    /\ LFReturn(p, "push", TRUE, NoVal)
    /\ UNCHANGED <<Q_TYPE, Q_SIZE, m_theQueueLF, m_readIndex,
                   m_maximumReadIndex, popped, unpopped, reserved,
                   currentMaximumReadIndex>>
    /\ UNCHANGED otherThanLFQ

\* CAS(&m_writeIndex, currentWriteIndex, (currentWriteIndex + 1))
CAS_MP_push_cas(p) ==
    /\ lfpc[p] = "cas_mp_cas"
    /\ IF m_writeIndex = currentWriteIndex[p]
         THEN /\ m_writeIndex' = Inc(currentWriteIndex[p])
              /\ reserved' = Append(reserved, [by |-> p, val |-> a_data[p]])
              /\ LFGoto(p, "cas_mp_store")
              /\ UNCHANGED currentWriteIndex
         ELSE /\ currentWriteIndex' =
                   [currentWriteIndex EXCEPT
                      ![p] = OldValAfterFailure(m_writeIndex, currentWriteIndex[p])]
              /\ LFGoto(p, "cas_push_load")
              /\ UNCHANGED <<m_writeIndex, reserved>>
    /\ UNCHANGED <<Q_TYPE, Q_SIZE, m_theQueueLF, m_readIndex,
                   m_maximumReadIndex, currentReadIndex, a_data, pushed,
                   popped, unpopped, currentMaximumReadIndex>>
    /\ UNCHANGED otherThanLFQ

CAS_MP_push_store(p) ==
    /\ lfpc[p] = "cas_mp_store"
    /\ StoreSlot(p, "cas_mp_commit")
    /\ UNCHANGED otherThanLFQ

\* variant: push returns without the exchange on m_maximumReadIndex
CAS_MP_push_commit_Skipped(p) ==
    /\ lfpc[p] = "cas_mp_commit"
    /\ pushed' = Append(pushed, a_data[p])
    /\ LFReturn(p, "push", TRUE, NoVal)
    /\ UNCHANGED <<Q_TYPE, Q_SIZE, m_theQueueLF, m_writeIndex, m_readIndex,
                   m_maximumReadIndex, popped, unpopped, reserved,
                   currentMaximumReadIndex>>
    /\ UNCHANGED otherThanLFQ

\* while (!CAS(&m_maximumReadIndex, currentWriteIndex, (currentWriteIndex + 1)))
\*     sched_yield();
\* return true;
\* A failed exchange changes nothing and the loop tries again, so the step
\* is taken when the exchange succeeds.
CAS_MP_push_commit(p) ==
    /\ lfpc[p] = "cas_mp_commit"
    /\ m_maximumReadIndex = currentWriteIndex[p]
    /\ m_maximumReadIndex' = Inc(currentWriteIndex[p])
    /\ pushed' = Append(pushed, a_data[p])
    /\ LFReturn(p, "push", TRUE, NoVal)
    /\ UNCHANGED <<Q_TYPE, Q_SIZE, m_theQueueLF, m_writeIndex, m_readIndex,
                   popped, unpopped, reserved, currentMaximumReadIndex>>
    /\ UNCHANGED otherThanLFQ

\* ---- pop
\* currentMaximumReadIndex = m_writeIndex (or m_maximumReadIndex)
CAS_LoadUpperBound(c) ==
    /\ currentMaximumReadIndex' = [currentMaximumReadIndex EXCEPT ![c] = UpperBound]
    /\ LFGoto(c, "cas_pop_loadr")

\* pop(a_data) is called and enters its loop
CAS_pop_call(c) ==
    /\ Q_TYPE \in CASTypes
    /\ lfpc[c] = "idle"
    /\ Len(popped) < MaxPushes
    /\ a_data' = [a_data EXCEPT ![c] = NoVal]
    /\ CAS_LoadUpperBound(c)
    /\ UNCHANGED <<Q_TYPE, Q_SIZE, m_theQueueLF, m_writeIndex, m_readIndex,
                   m_maximumReadIndex, currentWriteIndex, currentReadIndex,
                   pushed, popped, unpopped, reserved>>
    /\ UNCHANGED otherThanLFQ

\* the loop starts again after a failed exchange
CAS_pop_load(c) ==
    /\ lfpc[c] = "cas_pop_load"
    /\ CAS_LoadUpperBound(c)
    /\ UNCHANGED <<Q_TYPE, Q_SIZE, m_theQueueLF, m_writeIndex, m_readIndex,
                   m_maximumReadIndex, currentWriteIndex, currentReadIndex,
                   a_data, pushed, popped, unpopped, reserved>>
    /\ UNCHANGED otherThanLFQ

\* currentReadIndex = m_readIndex;
\* if (countToIndex(currentReadIndex) == countToIndex(currentMaximumReadIndex))
\*     return false;
CAS_pop_loadr(c) ==
    /\ lfpc[c] = "cas_pop_loadr"
    /\ IF countToIndex(m_readIndex) = countToIndex(currentMaximumReadIndex[c])
         THEN /\ LFReturn(c, "pop", FALSE, a_data[c])
              /\ currentMaximumReadIndex' = [currentMaximumReadIndex EXCEPT ![c] = 0]
         ELSE /\ currentReadIndex' = [currentReadIndex EXCEPT ![c] = m_readIndex]
              /\ LFGoto(c, "cas_pop_read")
              /\ UNCHANGED <<a_data, currentWriteIndex, currentMaximumReadIndex>>
    /\ UNCHANGED <<Q_TYPE, Q_SIZE, m_theQueueLF, m_writeIndex, m_readIndex,
                   m_maximumReadIndex, pushed, popped, unpopped, reserved>>
    /\ UNCHANGED otherThanLFQ

\* a_data = m_theQueue[countToIndex(currentReadIndex)]
CAS_pop_read(c) ==
    /\ lfpc[c] = "cas_pop_read"
    /\ \E v \in Observed(ReadSlot(currentReadIndex[c])) :
          a_data' = [a_data EXCEPT ![c] = v]
    /\ LFGoto(c, "cas_pop_cas")
    /\ UNCHANGED <<Q_TYPE, Q_SIZE, m_theQueueLF, m_writeIndex, m_readIndex,
                   m_maximumReadIndex, currentWriteIndex, currentReadIndex,
                   pushed, popped, unpopped, reserved,
                   currentMaximumReadIndex>>
    /\ UNCHANGED otherThanLFQ

\* if (CAS(&m_readIndex, currentReadIndex, (currentReadIndex + 1))) return true;
CAS_pop_cas(c) ==
    /\ lfpc[c] = "cas_pop_cas"
    /\ IF m_readIndex = currentReadIndex[c]
         THEN /\ m_readIndex' = Inc(currentReadIndex[c])
              /\ popped' = Append(popped, a_data[c])
              /\ unpopped' = unpopped \ {countToIndex(currentReadIndex[c])}
              /\ LFReturn(c, "pop", TRUE, a_data[c])
              /\ currentMaximumReadIndex' = [currentMaximumReadIndex EXCEPT ![c] = 0]
         ELSE /\ currentReadIndex' =
                   [currentReadIndex EXCEPT
                      ![c] = OldValAfterFailure(m_readIndex, currentReadIndex[c])]
              /\ LFGoto(c, "cas_pop_load")
              /\ UNCHANGED <<m_readIndex, popped, unpopped, a_data,
                             currentWriteIndex, currentMaximumReadIndex>>
    /\ UNCHANGED <<Q_TYPE, Q_SIZE, m_theQueueLF, m_writeIndex,
                   m_maximumReadIndex, pushed, reserved>>
    /\ UNCHANGED otherThanLFQ

CAS_PopSteps(c) ==
    \/ CAS_pop_call(c) \/ CAS_pop_load(c) \/ CAS_pop_loadr(c)
    \/ CAS_pop_read(c) \/ CAS_pop_cas(c)

\* ---- single-producer implementation: one producer and two consumers
InitCASQ ==
    /\ \E a_size \in 2..MaxQSize : ConstructLFQ("SingleProducerCAS", a_size)
    /\ ConstructSQ(1)
    /\ ConstructCT
    /\ ConstructRest

NextCASQ ==
    \/ CAS_SP_push_call(SPProducer)
    \/ CAS_push_loadr(SPProducer)
    \/ CAS_SP_push_store(SPProducer)
    \/ CAS_SP_push_add(SPProducer)
    \/ \E c \in Consumers : CAS_PopSteps(c)

SpecCASQ == InitCASQ /\ [][NextCASQ]_vars

\* ---- multiple-producers implementation: two producers and one consumer
\* (nobody else changes m_readIndex, so the exchange of pop always succeeds)
InitCASMP ==
    /\ \E a_size \in 2..MaxQSize : ConstructLFQ("MultipleProducersCAS", a_size)
    /\ ConstructSQ(1)
    /\ ConstructCT
    /\ ConstructRest

NextCASMP ==
    \/ \E p \in Producers :
          \/ CAS_MP_push_call(p) \/ CAS_MP_push_load(p) \/ CAS_push_loadr(p)
          \/ CAS_MP_push_cas(p) \/ CAS_MP_push_store(p) \/ CAS_MP_push_commit(p)
    \/ CAS_pop_call(SingleConsumer)
    \/ CAS_pop_loadr(SingleConsumer)
    \/ CAS_pop_read(SingleConsumer)
    \/ CAS_pop_cas(SingleConsumer)

SpecCASMP == InitCASMP /\ [][NextCASMP]_vars

\* the producer that keeps being scheduled; the other one can be suspended
\* at any point of its push, for any time
RunningProducer == "p2"

\* a step of the push producer p is executing
CAS_MP_PushSteps(p) ==
    \/ CAS_MP_push_load(p) \/ CAS_push_loadr(p) \/ CAS_MP_push_cas(p)
    \/ CAS_MP_push_store(p) \/ CAS_MP_push_commit(p)

\* RunningProducer and the consumer take the next step of the call they are
\* in whenever it is possible; nothing forces a thread to make a call
FairnessCASMP ==
    /\ WF_vars(CAS_MP_PushSteps(RunningProducer))
    /\ WF_vars(CAS_pop_loadr(SingleConsumer) \/ CAS_pop_read(SingleConsumer)
                 \/ CAS_pop_cas(SingleConsumer))

FairSpecCASMP == SpecCASMP /\ FairnessCASMP

\* ---- either implementation, chosen when the queue is instantiated
InitLFQ == InitSPQ \/ InitMPQ

NextLFQ ==
    \/ SP_push_load(SPProducer)
    \/ SP_push_check(SPProducer)
    \/ SP_push_store(SPProducer)
    \/ SP_push_inc(SPProducer)
    \/ \E p \in Producers :
          \/ MP_push_call(p) \/ MP_push_load(p) \/ MP_push_check(p)
          \/ MP_push_cas(p) \/ MP_push_store(p) \/ MP_push_commit(p)
    \/ \E c \in Consumers : PopSteps(c) \/ SP_pop_check(c) \/ MP_pop_check(c)

SpecLFQ == InitLFQ /\ [][NextLFQ]_vars

\* ---- several producers and one consumer (nobody else changes m_readIndex,
\* so the exchange of pop always succeeds and its loop runs once)
NextMPSC ==
    \/ \E p \in Producers :
          \/ MP_push_call(p) \/ MP_push_load(p) \/ MP_push_check(p)
          \/ MP_push_cas(p) \/ MP_push_store(p) \/ MP_push_commit(p)
    \/ Pop_call(SingleConsumer)
    \/ MP_pop_check(SingleConsumer)
    \/ Pop_read(SingleConsumer)
    \/ Pop_cas(SingleConsumer)

SpecMPSC == InitMPQ /\ [][NextMPSC]_vars

\* ---- the two multiple-producers implementations, each with its producers
\* and one consumer
InitMPBoth == InitMPQ \/ InitCASMP

NextMPBoth == NextMPSC \/ NextCASMP

SpecMPBoth == InitMPBoth /\ [][NextMPBoth]_vars

\* a step of the push producer p is executing (std::atomic implementation)
MP_PushSteps(p) ==
    \/ MP_push_load(p) \/ MP_push_check(p) \/ MP_push_cas(p)
    \/ MP_push_store(p) \/ MP_push_commit(p)

\* every producer takes the next step of the push it is in whenever it is
\* possible; nothing forces a thread to make a call, and nothing is assumed
\* of the consumer
FairnessMPBoth ==
    \A p \in Producers :
        /\ WF_vars(MP_PushSteps(p))
        /\ WF_vars(CAS_MP_PushSteps(p))

FairSpecMPBoth == SpecMPBoth /\ FairnessMPBoth

(***************************************************************************)
(* VTimer<TIME_TYPE> (vtimer.h), TIME_TYPE an unsigned integer of the      *)
(* width of the counters above (uint32_t in the test, reduced here)        *)
(***************************************************************************)
Times == 0..(CountMod - 1)

\* a_currentTime + m_period in TIME_TYPE
PlusPeriod(a_currentTime) == (a_currentTime + m_period) % CountMod

\* m_nextExpiryTime = a_currentTime + m_period, when the timer expires
NextExpiry(a_currentTime) == PlusPeriod(a_currentTime)

\* VTimer<TIME_TYPE>::Update(a_currentTime)
Update(a_currentTime) ==
    /\ updates < MaxUpdates
    /\ updates' = updates + 1
    /\ IF m_nextExpiryTime = 0
         THEN /\ m_nextExpiryTime' =
                    IF PlusPeriod(a_currentTime) = 0
                      THEN 1
                      ELSE PlusPeriod(a_currentTime)
              /\ lastUpdate' = [time |-> a_currentTime, called |-> FALSE,
                                arg |-> 0, first |-> (updates = 0),
                                expiry |-> m_nextExpiryTime]
         ELSE IF a_currentTime >= m_nextExpiryTime
                THEN /\ m_nextExpiryTime' = NextExpiry(a_currentTime)
                     /\ lastUpdate' = [time |-> a_currentTime, called |-> TRUE,
                                       arg |-> a_currentTime,
                                       first |-> (updates = 0),
                                       expiry |-> m_nextExpiryTime]
                ELSE /\ m_nextExpiryTime' = m_nextExpiryTime
                     /\ lastUpdate' = [time |-> a_currentTime, called |-> FALSE,
                                       arg |-> 0, first |-> (updates = 0),
                                       expiry |-> m_nextExpiryTime]
    /\ UNCHANGED m_period
    /\ UNCHANGED <<sqVars, lfqVars, countVars, ctVars, asgVars, sgVars>>

InitVT ==
    /\ \E a_period \in 0..MaxPeriod : ConstructVTimer(a_period)
    /\ ConstructSQ(1)
    /\ ConstructLFQ("SingleProducer", 2)
    /\ ConstructCT
    /\ ConstructOther(1, <<>>)
    /\ ConstructSingleton

NextVT == \E a_currentTime \in Times : Update(a_currentTime)

SpecVT == InitVT /\ [][NextVT]_vars

(***************************************************************************)
(* Properties of SafeQueue<T>                                              *)
(***************************************************************************)

\* s is a prefix of u
IsPrefix(s, u) ==
    /\ Len(s) <= Len(u)
    /\ \A i \in 1..Len(s) : s[i] = u[i]

\* thread t takes a step of the call it is in, or starts or ends one
Moves(t) == pc'[t] # pc[t]

\* C1: the values removed, in the order the removals held the mutex, are a
\* prefix of the values stored, in the order the stores held the mutex.
C1_FIFO == IsPrefix(removed, stored)

\* two different values went through the queue and came out
C1_Witness ==
    /\ Len(removed) >= 2
    /\ removed[1] # removed[2]

\* C2: the queue never holds more than m_maximumSize elements (and a blocking
\* Push is parked, not storing, while it holds m_maximumSize).
C2_CapacityBound ==
    /\ Len(m_theQueue) \in 0..m_maximumSize
    /\ m_maximumSize >= 1

\* a Push is blocked on a queue that holds m_maximumSize elements
C2_Witness ==
    /\ Len(m_theQueue) = m_maximumSize
    /\ \E t \in SQThreads : pc[t] = "Push_wait" /\ t \in m_cond

\* thread t is blocked in Push and the queue has room
PushBlockedWithRoom(t) == pc[t] = "Push_wait" /\ Len(m_theQueue) < m_maximumSize

\* thread t is blocked in Pop and the queue has an element
PopBlockedWithElement(t) == pc[t] = "Pop_wait" /\ Len(m_theQueue) > 0

\* C3 as stated: whatever the number of blocked pushers and poppers, a thread
\* blocked in Push returns once a pop has made room, and a thread blocked in
\* Pop returns once a push has stored an element.
C3_BlockedAlwaysReturns ==
    \A t \in SQThreads :
        /\ PushBlockedWithRoom(t) ~> (pc[t] = "idle")
        /\ PopBlockedWithElement(t) ~> (pc[t] = "idle")

\* C3: a thread blocked in Push returns once a pop has made room unless the
\* queue is filled again before it runs, and a thread blocked in Pop returns
\* once a push has stored an element unless the queue is emptied again before
\* it runs.
C3_BlockedReturnsOrOvertaken ==
    \A t \in SQThreads :
        /\ PushBlockedWithRoom(t) ~>
               (pc[t] = "idle" \/ Len(m_theQueue) >= m_maximumSize)
        /\ PopBlockedWithElement(t) ~> (pc[t] = "idle" \/ m_theQueue = <<>>)

\* a pop has made room while two threads are blocked in Push
C3_Witness ==
    \E t, u \in SQThreads :
        /\ t # u
        /\ PushBlockedWithRoom(t)
        /\ PushBlockedWithRoom(u)

\* C4: a thread parked on the condition variable and not notified has a false
\* predicate: the queue is empty for Pop/TimedWaitPop, full for Push.
C4_NoLostWakeup ==
    \A t \in m_cond :
        /\ pc[t] \in {"Pop_wait", "TWP_wait"} => m_theQueue = <<>>
        /\ pc[t] = "Push_wait" => Len(m_theQueue) >= m_maximumSize

\* a pusher and a popper have both been notified and not yet run again, while
\* another thread is still parked
C4_Witness ==
    /\ \E t \in SQThreads :
          pc[t] = "Push_wait" /\ t \notin m_cond /\ Len(m_theQueue) < m_maximumSize
    /\ \E t \in SQThreads : pc[t] \in {"Pop_wait", "TWP_wait"} /\ t \in m_cond

\* C5: TryPush never parks; it returns true and appends its element at the
\* back iff the queue holds fewer than m_maximumSize elements, else it returns
\* false and leaves the contents and the capacity as they are.
C5_TryPush ==
    [][\A t \in SQThreads :
         (pc[t] = "TryPush_crit" /\ Moves(t)) =>
            /\ m_mutex = t
            /\ pc'[t] = "idle"
            /\ t \notin m_cond'
            /\ ret'.op = "TryPush"
            /\ m_maximumSize' = m_maximumSize
            /\ IF Len(m_theQueue) < m_maximumSize
                 THEN /\ ret'.rv = TRUE
                      /\ m_theQueue' = Append(m_theQueue, a_elem[t])
                 ELSE /\ ret'.rv = FALSE
                      /\ m_theQueue' = m_theQueue]_vars

\* a TryPush has just been refused
C5_Witness ==
    /\ ret.op = "TryPush"
    /\ ret.rv = FALSE
    /\ Len(m_theQueue) = m_maximumSize

\* C6: TryPop returns false and leaves the queue as it is iff the queue is
\* empty; otherwise it returns true, hands out the front element and removes
\* that one element.
C6_TryPop ==
    [][\A t \in SQThreads :
         (pc[t] = "TryPop_crit" /\ Moves(t)) =>
            /\ m_mutex = t
            /\ pc'[t] = "idle"
            /\ ret'.op = "TryPop"
            /\ m_maximumSize' = m_maximumSize
            /\ IF m_theQueue = <<>>
                 THEN /\ ret'.rv = FALSE
                      /\ m_theQueue' = m_theQueue
                 ELSE /\ ret'.rv = TRUE
                      /\ ret'.data = Head(m_theQueue)
                      /\ m_theQueue' = Tail(m_theQueue)]_vars

\* a TryPop has just taken one of two elements
C6_Witness ==
    /\ ret.op = "TryPop"
    /\ ret.rv = TRUE
    /\ m_theQueue # <<>>

TWPPcs == {"TWP_crit", "TWP_wait", "TWP_timeout"}

\* C7: no step of a TimedWaitPop call other than the one that returns true
\* changes the contents or the capacity or notifies anybody; the call that
\* returns false is made of such steps only.
C7_TimedWaitPopFrame ==
    [][\A t \in SQThreads :
         (Moves(t) /\ (pc[t] \in TWPPcs \/ pc'[t] \in TWPPcs)
                   /\ ~(pc'[t] = "idle" /\ ret'.rv = TRUE)) =>
            /\ m_theQueue' = m_theQueue
            /\ m_maximumSize' = m_maximumSize
            /\ stored' = stored
            /\ removed' = removed
            /\ ~notified'
            /\ m_cond' \in {m_cond, m_cond \cup {t}}]_vars

\* a TimedWaitPop has just returned false on a queue that has been in use
C7_Witness ==
    /\ ret.op = "TimedWaitPop"
    /\ ret.rv = FALSE
    /\ Len(removed) >= 1
    /\ \E t \in SQThreads : pc[t] \in {"Pop_wait", "TWP_wait"} /\ t \in m_cond

\* C8: TimedWaitPop returns false only from the re-check made after the
\* deadline has been reached, with the queue empty; every re-check that finds
\* the queue non-empty returns true with the front element.
C8_TimedWaitPopResult ==
    [][\A t \in SQThreads :
         (pc[t] \in {"TWP_crit", "TWP_timeout"} /\ Moves(t)) =>
            /\ m_mutex = t
            /\ (pc'[t] = "idle" /\ ret'.rv = FALSE) =>
                   (expired[t] /\ m_theQueue = <<>>)
            /\ m_theQueue # <<>> =>
                   /\ pc'[t] = "idle"
                   /\ ret'.op = "TimedWaitPop"
                   /\ ret'.rv = TRUE
                   /\ ret'.data = Head(m_theQueue)
                   /\ m_theQueue' = Tail(m_theQueue)]_vars

\* the re-check made at the deadline finds an element
C8_Witness ==
    \E t \in SQThreads :
        /\ pc[t] = "TWP_timeout"
        /\ expired[t]
        /\ m_theQueue # <<>>

(***************************************************************************)
(* Properties of the lock-free queue                                       *)
(***************************************************************************)

\* thread t takes the step that writes its value into the array
Stores(t) == lfpc[t] \in {"sp_store", "mp_store"} /\ lfpc'[t] # lfpc[t]

\* C9: in the single-producer queue the values returned by successful pops,
\* in the order the pops succeed, are a prefix of the values passed to
\* successful pushes, in the order the pushes succeed.
C9_SingleProducerFIFO == IsPrefix(popped, pushed)

\* the array index has wrapped, and three pops returned values that are not
\* all the same while the producer was in the middle of another push
C9_Witness ==
    /\ Q_TYPE = "SingleProducer"
    /\ Q_SIZE = 2
    /\ Len(popped) = 3
    /\ popped[1] # popped[2]
    /\ lfpc[SPProducer] = "sp_inc"

\* C10: in every reachable state successful pushes minus successful pops is
\* in 0..Q_SIZE-1, no push stores while Q_SIZE-1 elements are live, and no
\* push writes a slot that holds an element not yet popped.
C10_CapacityNoOverwrite ==
    /\ [](Len(pushed) - Len(popped) \in 0..(Q_SIZE - 1))
    /\ [][\A p \in Producers :
            Stores(p) => /\ Len(pushed) - Len(popped) < Q_SIZE - 1
                         /\ countToIndex(currentWriteIndex[p]) \notin unpopped]_vars

\* the counter value that the i-th reservation won (m_writeIndex has been
\* incremented once per reservation)
CountOf(i) == (m_writeIndex + CountMod - Len(reserved) + (i - 1)) % CountMod

\* the position in reserved of the counter value a_count
PositionOf(a_count) ==
    ((a_count + CountMod - CountOf(1)) % CountMod) + 1

\* the last reservation of producer p
LastReservation(p) ==
    CHOOSE i \in 1..Len(reserved) :
        /\ reserved[i].by = p
        /\ \A j \in (i + 1)..Len(reserved) : reserved[j].by # p

\* the counter value producer p has reserved in the push it is executing
ReservedCount(p) == CountOf(LastReservation(p))

\* producer p takes the step that advances m_maximumReadIndex and returns
Commits(p) == lfpc[p] = "mp_commit" /\ lfpc'[p] = "idle"

\* a_count is a_other or comes before it (counters compared modulo CountMod)
NotAfter(a_count, a_other) ==
    (a_other + CountMod - a_count) % CountMod < CountMod \div 2

\* C11: the producer that reserved counter value c advances
\* m_maximumReadIndex only from c to c+1, and m_maximumReadIndex never passes
\* a counter value whose producer has not yet stored its value.
C11_CommitInReservationOrder ==
    /\ [][\A p \in Producers :
            Commits(p) => /\ m_maximumReadIndex = ReservedCount(p)
                          /\ m_maximumReadIndex' = Inc(ReservedCount(p))]_vars
    /\ [](\A p \in Producers :
            lfpc[p] = "mp_store" => NotAfter(m_maximumReadIndex, ReservedCount(p)))

\* C12: with several producers, the i-th successful pop (the pop of the
\* i-th counter value) returns the value that the producer which reserved
\* that counter value passed to push, never what the slot held before.
C12_PopReturnsOwnersValue ==
    \A i \in 1..Len(popped) :
        /\ i <= Len(reserved)
        /\ popped[i] = reserved[i].val

\* how many times v occurs in the sequence s
Occurrences(s, v) == Cardinality({i \in 1..Len(s) : s[i] = v})

\* no push or pop is in progress
AllIdle == \A t \in LFThreads : lfpc[t] = "idle"

\* C13: once no call is in progress and the queue is empty, every value has
\* been returned by successful pops as many times as it was passed to
\* successful pushes.
C13_Conservation ==
    (AllIdle /\ m_readIndex = m_writeIndex)
        => \A v \in PushedValues \cup {NoVal} :
               Occurrences(popped, v) = Occurrences(pushed, v)

\* the values producer p has passed to the pushes that reserved a counter
\* value, in the order of its calls
RECURSIVE PushSequence(_, _)
PushSequence(p, r) ==
    IF r = <<>> THEN <<>>
    ELSE IF Head(r).by = p THEN <<Head(r).val>> \o PushSequence(p, Tail(r))
    ELSE PushSequence(p, Tail(r))

\* s can be obtained by merging a prefix of a with a prefix of b, keeping
\* the order of both
RECURSIVE IsInterleaving(_, _, _)
IsInterleaving(s, a, b) ==
    \/ s = <<>>
    \/ /\ a # <<>>
       /\ Head(s) = Head(a)
       /\ IsInterleaving(Tail(s), Tail(a), b)
    \/ /\ b # <<>>
       /\ Head(s) = Head(b)
       /\ IsInterleaving(Tail(s), a, Tail(b))

\* C14: with several producers and one consumer, the sequence of popped
\* values is an interleaving of the producers' push sequences that keeps
\* each producer's own order.
C14_PerProducerOrder ==
    IsInterleaving(popped, PushSequence("p1", reserved), PushSequence("p2", reserved))

\* how far the counter a_to is ahead of the counter a_from
Ahead(a_from, a_to) == (a_to + CountMod - a_from) % CountMod

\* a counter keeps its value or is incremented
Advances(a_counter, a_next) == a_next \in {a_counter, Inc(a_counter)}

\* producer p has reserved a counter value and not committed it yet
Committing(p) == lfpc[p] \in {"mp_store", "mp_commit"}

\* C15: m_readIndex <= m_maximumReadIndex <= m_writeIndex (single producer:
\* m_readIndex <= m_writeIndex), m_writeIndex - m_readIndex <= Q_SIZE - 1,
\* the counters never decrease, and m_maximumReadIndex = m_writeIndex
\* whenever no producer is between its reservation and its commit.
C15_CounterOrder ==
    /\ [](/\ Ahead(m_readIndex, m_writeIndex) <= Q_SIZE - 1
          /\ Q_TYPE = "MultipleProducers" =>
               /\ Ahead(m_readIndex, m_maximumReadIndex)
                    <= Ahead(m_readIndex, m_writeIndex)
               /\ (\A p \in Producers : ~Committing(p))
                    => m_maximumReadIndex = m_writeIndex)
    /\ [][/\ Advances(m_readIndex, m_readIndex')
          /\ Advances(m_writeIndex, m_writeIndex')
          /\ Advances(m_maximumReadIndex, m_maximumReadIndex')]_vars

\* two producers are between reservation and commit, an element is committed
\* and the array can take no more
C15_Witness ==
    /\ Q_TYPE = "MultipleProducers"
    /\ Ahead(m_readIndex, m_maximumReadIndex) = 1
    /\ Ahead(m_maximumReadIndex, m_writeIndex) = 1
    /\ Q_SIZE = 3
    /\ m_readIndex > 0
    /\ \E p \in Producers : lfpc[p] = "mp_commit"

\* C16: in the implementation on the CAS macro, with two consumers, a pop
\* returns true only if the read position held a committed element not yet
\* popped (m_readIndex differed from the upper bound when its exchange
\* succeeded), and m_readIndex never advances past the upper bound.
C16_PopStaysBehindUpperBound ==
    /\ [](Ahead(m_readIndex, UpperBound) <= Q_SIZE - 1)
    /\ [][\A c \in Consumers :
            (lfpc[c] = "cas_pop_cas" /\ lfpc'[c] = "idle")
               => m_readIndex # UpperBound]_vars

\* the counters and the slots of the queue
SharedLF == <<m_readIndex, m_writeIndex, m_maximumReadIndex, m_theQueueLF>>

\* the positions of a call at which it has changed nothing yet
UntouchedPcs == {"sp_check", "mp_load", "mp_check", "mp_cas",
                 "pop_load", "pop_check", "pop_read", "pop_cas"}

\* thread t returns false from push or pop in this step
ReturnsFalse(t) ==
    /\ lfpc[t] # "idle"
    /\ lfpc'[t] = "idle"
    /\ lfret'.op # "none"
    /\ lfret'.rv = FALSE

\* C17: a push or pop that returns false has changed none of m_readIndex,
\* m_writeIndex, m_maximumReadIndex and the slots (it returns from a position
\* at which the call has changed nothing, and no step into such a position
\* changes anything), and a pop that finds no committed element at the
\* current read position returns false in that step instead of waiting.
C17_FailureChangesNothing ==
    [][\A t \in LFThreads :
         /\ ReturnsFalse(t) => (lfpc[t] \in UntouchedPcs /\ UNCHANGED SharedLF)
         /\ (lfpc'[t] # lfpc[t] /\ lfpc'[t] \in UntouchedPcs) => UNCHANGED SharedLF
         /\ (/\ lfpc[t] = "pop_check"
             /\ lfpc'[t] # lfpc[t]
             /\ currentReadIndex[t] = m_readIndex
             /\ m_readIndex = UpperBound) => ReturnsFalse(t)]_vars

\* a pop has just returned false while a producer has reserved a slot and
\* not committed it
C17_Witness ==
    /\ lfret.op = "pop"
    /\ lfret.rv = FALSE
    /\ Q_TYPE = "MultipleProducers"
    /\ m_writeIndex # m_readIndex
    /\ \E p \in Producers : lfpc[p] = "mp_commit"

\* the number of live elements: successful pushes minus successful pops
LiveElements == Len(pushed) - Len(popped)

\* C18: with no push or pop in progress, size() returns the number of live
\* elements, a value in 0..Q_SIZE-1.
C18_SizeIsLiveCount ==
    AllIdle => (size = LiveElements /\ size \in 0..(Q_SIZE - 1))

\* C19: with no push or pop in progress, full() returns true iff exactly
\* Q_SIZE - 1 elements are live, and iff the full test of the next push
\* finds the queue full (the push returns false).
C19_FullIffCapacityReached ==
    AllIdle => /\ full <=> (LiveElements = Q_SIZE - 1)
               /\ full <=> PushFindsFull(m_writeIndex)

\* the queue is full with nothing in progress after the write position has
\* gone round the array
C19_Witness ==
    /\ AllIdle
    /\ full
    /\ LiveElements = Q_SIZE - 1
    /\ m_writeIndex >= Q_SIZE

\* thread t returns from push or pop with a_result in this step
Returns(t, a_op, a_result) ==
    /\ lfpc[t] # "idle"
    /\ lfpc'[t] = "idle"
    /\ lfret'.op = a_op
    /\ lfret'.rv = a_result

\* C20: with Q_SIZE a power of two, the queue whose counters roll over
\* during the run keeps FIFO order, never holds more than Q_SIZE - 1
\* elements and never overwrites an unpopped slot; full() and the empty test
\* agree with the number of live elements when nothing is in progress, push
\* returns false only when Q_SIZE - 1 elements are live and a pop that loads
\* the current read position returns false only when none is.
C20_RollOverPreservesBehaviour ==
    /\ [](/\ IsPrefix(popped, pushed)
          /\ LiveElements \in 0..(Q_SIZE - 1)
          /\ AllIdle => /\ full <=> (LiveElements = Q_SIZE - 1)
                        /\ PopFindsEmpty(m_readIndex, m_writeIndex)
                             <=> (LiveElements = 0))
    /\ [][/\ Stores(SPProducer) =>
                /\ LiveElements < Q_SIZE - 1
                /\ countToIndex(currentWriteIndex[SPProducer]) \notin unpopped
          /\ Returns(SPProducer, "push", FALSE) => LiveElements = Q_SIZE - 1
          /\ \A c \in Consumers :
                /\ (Returns(c, "pop", FALSE) /\ currentReadIndex[c] = m_readIndex)
                      => LiveElements = 0
                /\ Returns(c, "pop", TRUE) =>
                      /\ LiveElements > 0
                      /\ lfret'.data = pushed[Len(popped) + 1]]_vars

\* both counters have rolled over, the queue is full with nothing in
\* progress, and pops on both sides of the roll-over returned values
C20_Witness ==
    /\ AllIdle
    /\ 0 < m_readIndex
    /\ m_readIndex < m_writeIndex
    /\ m_writeIndex < MaxPushes
    /\ Len(popped) > 1
    /\ full

\* C21: with Q_SIZE not a power of two, across the roll-over of the counters
\* no push stores into a slot that holds an element not yet popped, a pop
\* that loads the current read position does not return false while
\* elements are live, and the popped values are a prefix of the pushed ones.
C21_OddSizeRollOverHarmless ==
    /\ [](IsPrefix(popped, pushed))
    /\ [][/\ Stores(SPProducer) =>
                countToIndex(currentWriteIndex[SPProducer]) \notin unpopped
          /\ \A c \in Consumers :
                (Returns(c, "pop", FALSE) /\ currentReadIndex[c] = m_readIndex)
                    => LiveElements = 0]_vars

\* C22: a producer that keeps taking steps completes every push it starts,
\* also when the other producer is suspended forever between reserving its
\* slot and committing it.
C22_RunningProducerCompletes ==
    (lfpc[RunningProducer] # "idle") ~> (lfpc[RunningProducer] = "idle")

\* consumer c is at the copy a_data = m_theQueue[countToIndex(currentReadIndex)]
\* of slot i
ReadingSlot(c, i) ==
    /\ lfpc[c] = "pop_read"
    /\ countToIndex(currentReadIndex[c]) = i

\* producer p is at the assignment m_theQueue[countToIndex(currentWriteIndex)] = a_data
\* to slot i
WritingSlot(p, i) ==
    /\ lfpc[p] \in {"sp_store", "mp_store"}
    /\ countToIndex(currentWriteIndex[p]) = i

\* C23: in no reachable state is a consumer at its copy of slot i while a
\* producer is at its assignment to slot i.
C23_NoReadWhileWriting ==
    \A c \in Consumers, p \in Producers, i \in 0..(Q_SIZE - 1) :
        ~(ReadingSlot(c, i) /\ WritingSlot(p, i))

\* C24: with exact counting, m_count (the value of size()) is in
\* 0..Q_SIZE-1 in every reachable state, and equals the number of live
\* elements whenever no push or pop is in progress.
C24_CountInRange ==
    /\ size_Counted \in 0..(Q_SIZE - 1)
    /\ AllIdle => size_Counted = LiveElements

(***************************************************************************)
(* Properties of ConsumerThread                                            *)
(***************************************************************************)

\* C25: the init delegate is called once, by the worker as the first step of
\* ThreadRoutine, and before every call of the consume delegate.
C25_InitOnceBeforeConsume ==
    /\ [](/\ initCalls <= 1
          /\ wpc # "init" => initCalls = 1
          /\ (consumed # <<>> \/ wpc \in {"twp", "consume"}) => initCalls = 1)
    /\ [][/\ initCalls' # initCalls =>
                (wpc = "init" /\ initCalls = 0 /\ initCalls' = 1 /\ consumed = <<>>)
          /\ consumed' # consumed => initCalls = 1]_vars

\* values have been produced before the init delegate ran, consumed after
\* it, and Join has returned
C25_Witness ==
    /\ initCalls = 1
    /\ Len(consumed) >= 2
    /\ joins = 1

\* C26: the arguments of the consume delegate are, in order, a prefix of the
\* values enqueued by Produce and ProduceOrBlock, and the element the
\* worker is about to consume is the next one.
C26_ConsumedIsPrefixOfProduced ==
    /\ IsPrefix(consumed, stored)
    /\ Len(consumed) <= Len(stored)
    /\ wpc = "consume" =>
          /\ Len(consumed) < Len(stored)
          /\ thisElem = stored[Len(consumed) + 1]

\* three values, not all the same, have been consumed
C26_Witness ==
    /\ Len(consumed) = 3
    /\ consumed[1] # consumed[2]
    /\ consumed = stored

\* C27: once a call of Join has returned, the worker has left ThreadRoutine,
\* no delegate is called and the queue is not popped.
C27_NothingAfterJoin ==
    /\ [](joins >= 1 => wpc = "done")
    /\ [][joins >= 1 => /\ initCalls' = initCalls
                        /\ consumed' = consumed
                        /\ removed' = removed]_vars

\* Join has returned after the worker consumed a value, and a value is
\* still in the queue
C27_Witness ==
    /\ joins = 1
    /\ Len(consumed) >= 1
    /\ Len(m_theQueue) >= 1

\* C28: after m_terminate has been set the worker calls the consume delegate
\* at most once more, it leaves its loop only when m_terminate is true, and
\* the first Join returns.
C28_JoinStopsWorker ==
    /\ [](/\ m_terminate => Len(consumed) <= consumedAtStop + 1
          /\ wpc = "done" => m_terminate)
    /\ (jpc = "join" /\ joins = 0) ~> (joins >= 1)

\* Join has returned and the worker consumed one value after m_terminate
\* was set
C28_Witness ==
    /\ m_terminate
    /\ Len(consumed) = consumedAtStop + 1
    /\ joins >= 1

\* C29: a call of Join made after a call of Join has returned ends without
\* a fault and leaves m_producerThread empty.
C29_SecondJoinIsNoOp ==
    /\ ~crashed
    /\ joins >= 1 => m_producerThread = "null"

\* C30: once Join has returned, the calls of the consume delegate and the
\* elements in the queue are together the values enqueued by Produce and
\* ProduceOrBlock, and the elements in the queue stay there.
C30_JoinDoesNotDrain ==
    /\ [](joins >= 1 => Len(consumed) + Len(m_theQueue) = Len(stored))
    /\ [][joins >= 1 => /\ consumed' = consumed
                        /\ IsPrefix(m_theQueue, m_theQueue')]_vars

\* Join has returned with every allowed value produced and one of them left
\* in the queue
C30_Witness ==
    /\ joins >= 1
    /\ m_theQueue # <<>>
    /\ Len(stored) = MaxStores

\* C31: Produce does not wait for room: the step of its TryPush that holds
\* the mutex ends the call; it returns true iff that step appended the
\* element to the queue, and false iff the queue held m_maximumSize elements,
\* and then the queue and the record of the stores are as they were.
C31_ProduceNeverWaits ==
    /\ [](\A t \in ProducerThreads : pc[t] = "TryPush_crit" => t \notin m_cond)
    /\ [][\A t \in ProducerThreads :
            (pc[t] = "TryPush_crit" /\ Moves(t)) =>
               /\ pc'[t] = "idle"
               /\ t \notin m_cond'
               /\ ret'.op = "TryPush"
               /\ ret'.rv \in {TRUE, FALSE}
               /\ ret'.rv = TRUE <=>
                      /\ m_theQueue' = Append(m_theQueue, a_elem[t])
                      /\ stored' = Append(stored, a_elem[t])
               /\ ret'.rv = FALSE <=>
                      /\ Len(m_theQueue) = m_maximumSize
                      /\ m_theQueue' = m_theQueue
                      /\ stored' = stored]_vars

\* a Produce has just been refused by a queue of capacity 1 whose element
\* the worker has not consumed yet
C31_Witness ==
    /\ ret.op = "TryPush"
    /\ ret.rv = FALSE
    /\ m_maximumSize = 1
    /\ Len(m_theQueue) = 1
    /\ consumed = <<>>
    /\ wpc \in {"test", "twp"}

\* C32: under fair scheduling every call of ProduceOrBlock returns, also a
\* call that found the queue full and is blocked while Join is called.
\* (Join is called at most once, so that the fault of a second call is not
\* what keeps the call from returning.)
C32_ProduceOrBlockReturns ==
    [](joins = 0 \/ jpc = "none") =>
        \A t \in ProducerThreads :
            (pc[t] \in {"Push_crit", "Push_wait"}) ~> (pc[t] = "idle")

(***************************************************************************)
(* Properties of SafeQueue<T>::operator=                                   *)
(***************************************************************************)

\* the condition under which operator= calls notify_all on the queue it
\* assigns to, a_dst, when it copies a_from
CrossesBoundary(a_dst, a_from) ==
    \/ ItemsOf(a_dst) = <<>> /\ ItemsOf(a_from) # <<>>
    \/ /\ Len(ItemsOf(a_dst)) >= MaximumSizeOf(a_dst)
       /\ Len(ItemsOf(a_from)) < MaximumSizeOf(a_from)

\* C33: the step of a copy-assignment that copies is taken with both
\* mutexes owned; it gives the queue assigned to the contents and the
\* capacity of the source, leaves the source as it is, and calls notify_all
\* on the queue assigned to iff that queue was empty and the source is not,
\* or it was full and the source is not; no thread stays parked on the
\* condition variable with a predicate that holds.
C33_CopyAssignment ==
    /\ [](\A t \in m_cond :
            /\ pc[t] \in {"Pop_wait", "TWP_wait"} => m_theQueue = <<>>
            /\ pc[t] = "Push_wait" => Len(m_theQueue) >= m_maximumSize)
    /\ [][\A x \in Assigners :
            (apc[x] = "copy" /\ apc'[x] = "idle") =>
               /\ m_mutex = x
               /\ other_mutex = x
               /\ a_this[x] = "a" =>
                     /\ m_theQueue' = other_theQueue
                     /\ m_maximumSize' = other_maximumSize
                     /\ other_theQueue' = other_theQueue
                     /\ other_maximumSize' = other_maximumSize
                     /\ notified' <=> CrossesBoundary("a", "b")
                     /\ m_cond' = IF notified' THEN {} ELSE m_cond
               /\ a_this[x] = "b" =>
                     /\ other_theQueue' = m_theQueue
                     /\ other_maximumSize' = m_maximumSize
                     /\ m_theQueue' = m_theQueue
                     /\ m_maximumSize' = m_maximumSize
                     /\ other_notified' <=> CrossesBoundary("b", "a")
                     /\ m_cond' = m_cond]_vars

\* a = b has just woken a thread that was blocked in Push on the full queue
\* "a", which now has room
C33_Witness ==
    /\ notified
    /\ ret = NoRet
    /\ assigns >= 1
    /\ \E t \in AsgUsers : pc[t] = "Push_wait" /\ t \notin m_cond
    /\ m_theQueue = other_theQueue
    /\ Len(m_theQueue) < m_maximumSize

\* C34: under fair scheduling every copy-assignment returns, also a = b and
\* b = a executed at the same time by two threads.
C34_AssignmentsComplete ==
    \A x \in Assigners : (apc[x] # "idle") ~> (apc[x] = "idle")

\* one thread executes a = b, the other b = a, and each owns one mutex
C34_Witness ==
    /\ \A x \in Assigners : apc[x] = "try"
    /\ a_this["x1"] = a_src["x2"]
    /\ a_src["x1"] = a_this["x2"]
    /\ m_mutex \in Assigners
    /\ other_mutex \in Assigners
    /\ m_mutex # other_mutex

(***************************************************************************)
(* Further properties of SafeQueue<T>                                      *)
(***************************************************************************)

\* C35: a step calls notify_all iff it is the return of a Push or TryPush
\* that stored its element into the empty queue, or the return of a Pop,
\* TryPop or TimedWaitPop that removed an element from the full queue; a
\* TryPush that stores nothing does not call it.
C35_NotifyOnBoundaries ==
    [][/\ ret'.op \in {"Push", "TryPush"} =>
            (notified' <=> /\ Len(m_theQueue') = Len(m_theQueue) + 1
                           /\ m_theQueue = <<>>)
       /\ ret'.op \in {"Pop", "TryPop", "TimedWaitPop"} =>
            (notified' <=> /\ Len(m_theQueue') = Len(m_theQueue) - 1
                           /\ Len(m_theQueue) >= m_maximumSize)
       /\ (ret'.op = "TryPush" /\ ret'.rv = FALSE) => ~notified'
       /\ ret'.op = "none" => ~notified'
       /\ notified' => m_cond' = {}
       /\ (~notified' /\ ret'.op # "none") => m_cond' = m_cond]_vars

\* a TimedWaitPop has just taken an element from the full queue and woken a
\* thread that was blocked in Push
C35_Witness ==
    /\ notified
    /\ ret.op = "TimedWaitPop"
    /\ ret.rv = TRUE
    /\ \E t \in SQThreads : pc[t] = "Push_wait" /\ t \notin m_cond

(***************************************************************************)
(* Progress of the lock-free queue                                         *)
(***************************************************************************)

\* positions of a multiple-producers push that has reserved its slot
ReservedPcs == {"mp_store", "mp_commit", "cas_mp_store", "cas_mp_commit"}

LoadedPcs == {"pop_check", "pop_read", "pop_cas"}

\* C37: m_readIndex counts the pops that returned true and only such a pop
\* advances it; a pop goes back to the start of its loop only from its
\* exchange on m_readIndex, and only when pops of other consumers have
\* returned true since it loaded m_readIndex; a pop that finds the queue
\* empty returns false.
C37_PopRetriesOnlyBehindAnotherPop ==
    /\ [](m_readIndex = Len(popped) % CountMod)
    /\ [](\A c \in Consumers :
             lfpc[c] \in LoadedPcs => currentReadIndex[c] <= m_readIndex)
    /\ [][/\ m_readIndex' # m_readIndex =>
               /\ \E c \in Consumers : lfpc[c] = "pop_cas" /\ lfpc'[c] = "idle"
               /\ lfret'.op = "pop"
               /\ lfret'.rv = TRUE
               /\ Len(popped') = Len(popped) + 1
          /\ \A c \in Consumers :
               /\ (lfpc'[c] = "pop_load" /\ lfpc[c] # "pop_load") =>
                     /\ lfpc[c] = "pop_cas"
                     /\ currentReadIndex[c] < m_readIndex
                     /\ m_readIndex' = m_readIndex
               /\ (lfpc[c] = "pop_check" /\ lfpc'[c] # "pop_check") =>
                     \/ lfpc'[c] = "pop_read"
                     \/ lfpc'[c] = "idle" /\ lfret'.op = "pop" /\ lfret'.rv = FALSE
               /\ (lfpc[c] = "pop_read" /\ lfpc'[c] # "pop_read") =>
                     lfpc'[c] = "pop_cas"]_vars

\* a consumer is back at the start of its loop after the other consumer took
\* the element it had read
C37_Witness ==
    /\ \E c \in Consumers : lfpc[c] = "pop_load"
    /\ Len(popped) >= 1
    /\ lfret = NoLFRet

(***************************************************************************)
(* Properties of Singleton<TClass>                                         *)
(***************************************************************************)

\* positions of Instance() between the exchange that takes m_lock and the
\* store that releases it
InsideLock == {"recheck", "new", "publish", "construct", "release"}

\* C38: at most one TClass object is created, every call of Instance returns
\* that object with its constructor finished, and m_lock is false whenever no
\* thread is between taking and releasing it.
C38_OneInstanceFullyConstructed ==
    /\ instances <= 1
    /\ Cardinality({t \in SgThreads : spc[t] \in InsideLock}) <= 1
    /\ m_lock <=> (\E t \in SgThreads : spc[t] \in InsideLock)
    /\ sret.thread # NoThread => (sret.ptr = 1 /\ sret.complete)

(***************************************************************************)
(* Properties of VTimer<TIME_TYPE>                                         *)
(***************************************************************************)

\* C39: a call of Update does not call the callback if it is the first call,
\* if its time is 0, or if its time is below the next expiry time; every
\* other call calls the callback once, with its time, and sets the next
\* expiry time to its time plus the period.
C39_UpdateFiresWhenDue ==
    [][updates' = updates + 1 =>
         LET noCall == \/ updates = 0
                       \/ lastUpdate'.time = 0
                       \/ lastUpdate'.time < m_nextExpiryTime
         IN  IF noCall
               THEN ~lastUpdate'.called
               ELSE /\ lastUpdate'.called
                    /\ lastUpdate'.arg = lastUpdate'.time
                    /\ m_nextExpiryTime' = PlusPeriod(lastUpdate'.time)]_vars
====
